---- MODULE Spec2Model ----
(***************************************************************************)
(* A model of the stock-club portfolio pipeline:                           *)
(*   - the persistence adapter (src/lib/storage.ts) and its save route,    *)
(*     as statements of one interactive database transaction per save;    *)
(*   - the portfolio aggregator calculatePortfolioTotals;                  *)
(*   - the transaction parsers' date and action normalisation;             *)
(*   - the four entry points of the parser module on whole files;          *)
(*   - loadPortfolioData after a save, and a save made twice;              *)
(*   - the quote clients and their cache;                                  *)
(*   - the text helpers of the parser module, one call at a time;          *)
(*   - the upload page and its file reads;                                 *)
(*   - the password-reset routes.                                          *)
(* Amounts are whole numbers; text that the code inspects character by     *)
(* character is a sequence of one-character strings.                       *)
(***************************************************************************)
EXTENDS Integers, Sequences, FiniteSets, TLC

VARIABLES
    db,        \* committed rows of the user's portfolio (what other sessions read)
    cur,       \* the rows including the uncommitted writes of the open transaction
    pc,        \* per request: position in POST /api/portfolio/save
    data,      \* per request: the PortfolioData body being saved
    cnt,       \* per request: the local existingCount
    serial,    \* history: the committed saves applied one after the other
    cHoldings, cTransactions, clock, res1, res2,   \* aggregator calls
    pPath, pDate, pAction, pOut,                   \* one parsed transaction record
    posInput, posContent, posOut1, posOut2,        \* a positions file: its rows, its text, two parses
    txInput, txEntry, txContent, txName, txOut,    \* a file given to an entry point of the parsers
    lBody, lOut,                                   \* a saved snapshot and what load returned
    qProvider, qKey, priceCache, qClock, qPc, qCall,   \* the quote client and its callers
    sFirst, sSecond,                               \* the store after a save and after the same save again
    positionsFile, transactionsFile, parsedData, pageError, calls,   \* the upload page
    users, aClock, aMinted, aReq, aLog,            \* the password-reset routes
    tInput, tOut                                   \* a text helper of the parser: its argument, its result

storeVars == <<db, cur, pc, data, cnt, serial>>
calcVars == <<cHoldings, cTransactions, clock, res1, res2>>
parseVars == <<pPath, pDate, pAction, pOut>>
fileVars == <<posInput, posContent, posOut1, posOut2, txInput, txEntry, txContent, txName, txOut, lBody, lOut>>
quoteVars == <<qProvider, qKey, priceCache, qClock, qPc, qCall>>
resaveVars == <<sFirst, sSecond>>
pageVars == <<positionsFile, transactionsFile, parsedData, pageError, calls>>
authVars == <<users, aClock, aMinted, aReq, aLog>>
textVars == <<tInput, tOut>>
laterVars == <<quoteVars, resaveVars, pageVars, authVars, textVars>>
vars == <<db, cur, pc, data, cnt, serial, cHoldings, cTransactions, clock, res1, res2,
          pPath, pDate, pAction, pOut,
          posInput, posContent, posOut1, posOut2, txInput, txEntry, txContent, txName, txOut, lBody, lOut,
          qProvider, qKey, priceCache, qClock, qPc, qCall, sFirst, sSecond,
          positionsFile, transactionsFile, parsedData, pageError, calls,
          users, aClock, aMinted, aReq, aLog, tInput, tOut>>

----------------------------------------------------------------------------
(* Bounds *)

\* longest holdings list in a request body
MaxHoldings == 2
\* longest transactions list in a request body
MaxTransactions == 2
\* instants the clock runs through
MaxClock == 3

\* the two concurrent save requests of the signed-in user
Savers == {1, 2}

----------------------------------------------------------------------------
(* Text *)

Digits == {"0", "1", "2", "3", "4", "5", "6", "7", "8", "9"}

\* new Date().toISOString() at the instants the clock runs through
Instants ==
    << <<"2","0","2","6","-","1","1","-","0","1","T","0","9",":","3","0",":","0","0",".","0","0","0","Z">>,
       <<"2","0","2","6","-","1","1","-","0","1","T","0","9",":","3","0",":","0","5",".","2","5","0","Z">>,
       <<"2","0","2","6","-","1","1","-","0","2","T","0","0",":","0","0",":","0","1",".","0","0","0","Z">>,
       <<"2","0","2","6","-","1","1","-","0","2","T","0","0",":","0","0",":","0","2",".","0","0","0","Z">> >>

toISOString(t) == Instants[t]

----------------------------------------------------------------------------
(* Records of src/lib/types.ts *)

HoldingA ==
    [symbol |-> "AAPL", name |-> "Apple Inc.", quantity |-> 10, costPerShare |-> 100,
     currentPrice |-> 150, marketValue |-> 1500, gainLoss |-> 500, gainLossPercent |-> 50]

HoldingB ==
    [symbol |-> "MSFT", name |-> "Microsoft", quantity |-> 2, costPerShare |-> 300,
     currentPrice |-> 250, marketValue |-> 500, gainLoss |-> -100, gainLossPercent |-> -16]

\* a position whose cost is not positive (a short or a gifted lot)
HoldingC ==
    [symbol |-> "GME", name |-> "GameStop", quantity |-> 3, costPerShare |-> -700,
     currentPrice |-> 20, marketValue |-> 60, gainLoss |-> 2160, gainLossPercent |-> 0]

HoldingD ==
    [symbol |-> "FREE", name |-> "Spin-off", quantity |-> 5, costPerShare |-> 0,
     currentPrice |-> 7, marketValue |-> 35, gainLoss |-> 35, gainLossPercent |-> 0]

TransactionA ==
    [date |-> "2026-01-26", action |-> "BUY", symbol |-> "AAPL", description |-> "Apple Inc.",
     quantity |-> 10, price |-> 100, fees |-> 0, amount |-> -1000]

TransactionB ==
    [date |-> "2026-02-03", action |-> "DIVIDEND", symbol |-> "MSFT", description |-> "Qualified Dividend",
     quantity |-> 0, price |-> 0, fees |-> 0, amount |-> 12]

\* lists of at most n elements of S
ListsOf(S, n) == UNION {[1..k -> S] : k \in 0..n}

\* lists of at most n elements of S that name no element twice (an export has
\* one row per position and one per ledger entry)
DistinctListsOf(S, n) ==
    {l \in ListsOf(S, n) : \A i, j \in 1..Len(l) : i # j => l[i] # l[j]}

----------------------------------------------------------------------------
(* calculatePortfolioTotals *)

AddMarketValue(sum, h) == sum + h.marketValue
\* variant of AddCost that forgets the quantity
AddCostPerShare(sum, h) == sum + h.costPerShare
AddCost(sum, h) == sum + (h.costPerShare * h.quantity)

RECURSIVE reduceMarketValue(_, _)
\* holdings.reduce((sum, h) => sum + h.marketValue, acc), left to right
reduceMarketValue(list, acc) ==
    IF list = <<>> THEN acc
    ELSE reduceMarketValue(Tail(list), AddMarketValue(acc, Head(list)))

RECURSIVE reduceCost(_, _)
\* holdings.reduce((sum, h) => sum + (h.costPerShare * h.quantity), acc)
reduceCost(list, acc) ==
    IF list = <<>> THEN acc
    ELSE reduceCost(Tail(list), AddCost(acc, Head(list)))

\* a quotient of two numbers times 100, kept exact as a fraction
Percent(gain, cost) == [num |-> gain * 100, den |-> cost]
ZeroPercent == [num |-> 0, den |-> 1]

\* variant of calculatePortfolioTotals that stamps the epoch instead of the clock
calculatePortfolioTotalsEpoch(holdings, transactions, now) ==
    LET totalValue == reduceMarketValue(holdings, 0)
        totalCost == reduceCost(holdings, 0)
        totalGainLoss == totalValue - totalCost
    IN  [holdings |-> holdings, transactions |-> transactions,
         totalValue |-> totalValue, totalCost |-> totalCost,
         totalGainLoss |-> totalGainLoss,
         totalGainLossPercent |->
             IF totalCost > 0 THEN Percent(totalGainLoss, totalCost) ELSE ZeroPercent,
         cashBalance |-> 0,
         lastUpdated |-> <<"1","9","7","0","-","0","1","-","0","1","T","0","0",":","0","0",":","0","0",".","0","0","0","Z">>]

calculatePortfolioTotals(holdings, transactions, now) ==
    LET totalValue == reduceMarketValue(holdings, 0)
        totalCost == reduceCost(holdings, 0)
        totalGainLoss == totalValue - totalCost
        totalGainLossPercent ==
            IF totalCost > 0 THEN Percent(totalGainLoss, totalCost) ELSE ZeroPercent
        cashBalance == 0
    IN  [holdings |-> holdings, transactions |-> transactions,
         totalValue |-> totalValue, totalCost |-> totalCost,
         totalGainLoss |-> totalGainLoss,
         totalGainLossPercent |-> totalGainLossPercent,
         cashBalance |-> cashBalance,
         lastUpdated |-> toISOString(now)]

\* no call has returned yet
NotCalled == [called |-> FALSE]

\* a field the record or row does not have
Absent == [present |-> FALSE, text |-> <<>>]

\* no record has been parsed yet
NotParsed == [kind |-> "none"]

\* no file is at hand
NoFile == [format |-> "none", rows |-> <<>>, text |-> <<>>]

\* no positions file is at hand
NoInput == [metadata |-> FALSE, full |-> FALSE, rows |-> <<>>, none |-> TRUE]

----------------------------------------------------------------------------
(* The persistence adapter: src/lib/storage.ts *)

NoPortfolio == [exists |-> FALSE]

EmptyStore == [portfolio |-> NoPortfolio, holdings |-> <<>>, transactions |-> <<>>]

\* new Date(s) of a date the parser or toISOString produced, as days since 1970
DateOf(s) ==
    CASE s = "2026-01-26" -> 20479
      [] s = "2026-02-03" -> 20487
      [] OTHER -> 0

\* tx.portfolio.upsert: the create and the update branch write the same columns
UpsertPortfolio(store, d) ==
    [store EXCEPT !.portfolio =
        [exists |-> TRUE,
         totalValue |-> d.totalValue, totalCost |-> d.totalCost,
         totalGainLoss |-> d.totalGainLoss,
         totalGainLossPercent |-> d.totalGainLossPercent,
         cashBalance |-> d.cashBalance, lastUpdated |-> d.lastUpdated]]

\* variant of DeleteHoldings that deletes nothing
DeleteHoldingsKeep(store) == store

\* tx.holding.deleteMany({ where: { portfolioId } })
DeleteHoldings(store) == [store EXCEPT !.holdings = <<>>]

HoldingRow(h) ==
    [symbol |-> h.symbol, name |-> h.name, quantity |-> h.quantity,
     costPerShare |-> h.costPerShare, currentPrice |-> h.currentPrice,
     marketValue |-> h.marketValue, gainLoss |-> h.gainLoss,
     gainLossPercent |-> h.gainLossPercent]

\* if (data.holdings.length > 0) tx.holding.createMany(...)
CreateHoldings(store, d) ==
    IF Len(d.holdings) > 0
    THEN [store EXCEPT !.holdings = @ \o [i \in 1..Len(d.holdings) |-> HoldingRow(d.holdings[i])]]
    ELSE store

TransactionRow(t) ==
    [date |-> DateOf(t.date), action |-> t.action, symbol |-> t.symbol,
     description |-> t.description, quantity |-> t.quantity, price |-> t.price,
     fees |-> t.fees, amount |-> t.amount]

\* Array.prototype.slice(start)
slice(list, start) == SubSeq(list, start + 1, Len(list))

\* variant of NewTransactions that slices from 0
NewTransactionsAll(d, existingCount) == d.transactions

\* data.transactions.slice(existingCount)
NewTransactions(d, existingCount) == slice(d.transactions, existingCount)

\* if (existingCount < data.transactions.length) tx.transaction.createMany(...)
CreateTransactions(store, d, existingCount) ==
    IF existingCount < Len(d.transactions)
    THEN LET new == NewTransactions(d, existingCount)
         IN  [store EXCEPT !.transactions = @ \o [i \in 1..Len(new) |-> TransactionRow(new[i])]]
    ELSE store

\* the whole callback of prisma.$transaction, run alone on store
SaveResult(store, d) ==
    LET s1 == UpsertPortfolio(store, d)
        s2 == DeleteHoldings(s1)
        s3 == CreateHoldings(s2, d)
    IN  IF Len(d.transactions) > 0
        THEN CreateTransactions(s3, d, Len(s3.transactions))
        ELSE s3

\* what the request body of POST /api/portfolio/save can be: request.json() is
\* passed on unchecked, so the totals are the aggregator's or anything else
Bodies ==
    LET honest == {calculatePortfolioTotals(h, t, 1) :
                      h \in DistinctListsOf({HoldingA, HoldingB}, MaxHoldings),
                      t \in DistinctListsOf({TransactionA, TransactionB}, MaxTransactions)}
    IN  honest \cup {[b EXCEPT !.totalValue = @ + 1] : b \in {x \in honest : x.transactions = <<>>}}

\* no request body is held
NoBody == [holdings |-> <<>>, transactions |-> <<>>, none |-> TRUE]

\* variant of InTransaction: the statements run on prisma, outside the transaction
InTransactionNone == {}

\* the positions of a request at which its statements run on the transaction
\* client tx, between the upsert and the commit or rollback
InTransaction == {"upserted", "deleted", "inserted", "counted", "finished", "throwing"}

\* the upsert writes the Portfolio row of the user (unique userId): the
\* database makes it wait while another open transaction has written that row
RowFree(t) == \A o \in Savers \ {t} : pc[o] \notin InTransaction

\* variant of AfterRollback without a transaction around the statements
RollbackKeepsWrites(committed, current) == current

\* prisma.$transaction rolls back when its callback throws
AfterRollback(committed, current) == committed

InitStore ==
    /\ db = EmptyStore
    /\ cur = EmptyStore
    /\ pc = [t \in Savers |-> "idle"]
    /\ data = [t \in Savers |-> NoBody]
    /\ cnt = [t \in Savers |-> 0]
    /\ serial = EmptyStore

\* POST: const portfolioData = await request.json()
Request(t) ==
    /\ pc[t] = "idle"
    /\ \E b \in Bodies : data' = [data EXCEPT ![t] = b]
    /\ pc' = [pc EXCEPT ![t] = "begin"]
    /\ UNCHANGED <<db, cur, cnt, serial, calcVars, parseVars, fileVars, laterVars>>

Upsert(t) ==
    /\ pc[t] = "begin"
    /\ RowFree(t)
    /\ cur' = UpsertPortfolio(cur, data[t])
    /\ pc' = [pc EXCEPT ![t] = "upserted"]
    /\ UNCHANGED <<db, data, cnt, serial, calcVars, parseVars, fileVars, laterVars>>

DeleteMany(t) ==
    /\ pc[t] = "upserted"
    /\ cur' = DeleteHoldings(cur)
    /\ pc' = [pc EXCEPT ![t] = "deleted"]
    /\ UNCHANGED <<db, data, cnt, serial, calcVars, parseVars, fileVars, laterVars>>

CreateManyHoldings(t) ==
    /\ pc[t] = "deleted"
    /\ cur' = CreateHoldings(cur, data[t])
    /\ pc' = [pc EXCEPT ![t] = "inserted"]
    /\ UNCHANGED <<db, data, cnt, serial, calcVars, parseVars, fileVars, laterVars>>

\* if (data.transactions.length > 0) existingCount = await tx.transaction.count(...)
CountTransactions(t) ==
    /\ pc[t] = "inserted"
    /\ IF Len(data[t].transactions) > 0
       THEN /\ cnt' = [cnt EXCEPT ![t] = Len(cur.transactions)]
            /\ pc' = [pc EXCEPT ![t] = "counted"]
       ELSE /\ cnt' = cnt
            /\ pc' = [pc EXCEPT ![t] = "finished"]
    /\ UNCHANGED <<db, cur, data, serial, calcVars, parseVars, fileVars, laterVars>>

CreateManyTransactions(t) ==
    /\ pc[t] = "counted"
    /\ cur' = CreateTransactions(cur, data[t], cnt[t])
    /\ pc' = [pc EXCEPT ![t] = "finished"]
    /\ cnt' = [cnt EXCEPT ![t] = 0]
    /\ UNCHANGED <<db, data, serial, calcVars, parseVars, fileVars, laterVars>>

\* the callback returned: the transaction commits
Commit(t) ==
    /\ pc[t] = "finished"
    /\ db' = cur
    /\ serial' = SaveResult(serial, data[t])
    /\ pc' = [pc EXCEPT ![t] = "done"]
    /\ data' = [data EXCEPT ![t] = NoBody]
    /\ UNCHANGED <<cur, cnt, calcVars, parseVars, fileVars, laterVars>>

\* the upsert itself fails (a time-out waiting for the row, a lost connection)
UpsertFails(t) ==
    /\ pc[t] = "begin"
    /\ pc' = [pc EXCEPT ![t] = "failed"]
    /\ data' = [data EXCEPT ![t] = NoBody]
    /\ UNCHANGED <<db, cur, cnt, serial, calcVars, parseVars, fileVars, laterVars>>

\* a later statement or the commit throws inside the callback
Throw(t) ==
    /\ pc[t] \in {"upserted", "deleted", "inserted", "counted", "finished"}
    /\ pc' = [pc EXCEPT ![t] = "throwing"]
    /\ cnt' = [cnt EXCEPT ![t] = 0]
    /\ UNCHANGED <<db, cur, data, serial, calcVars, parseVars, fileVars, laterVars>>

Rollback(t) ==
    /\ pc[t] = "throwing"
    /\ db' = AfterRollback(db, cur)
    /\ cur' = AfterRollback(db, cur)
    /\ pc' = [pc EXCEPT ![t] = "failed"]
    /\ data' = [data EXCEPT ![t] = NoBody]
    /\ UNCHANGED <<cnt, serial, calcVars, parseVars, fileVars, laterVars>>

\* POST answers { success: true } or status 500
Respond(t) ==
    /\ pc[t] \in {"done", "failed"}
    /\ pc' = [pc EXCEPT ![t] = "idle"]
    /\ UNCHANGED <<db, cur, data, cnt, serial, calcVars, parseVars, fileVars, laterVars>>

\* the aggregator and the parsers at rest
IdleCalc ==
    /\ cHoldings = <<>> /\ cTransactions = <<>> /\ clock = 1
    /\ res1 = NotCalled /\ res2 = NotCalled

IdleParse ==
    /\ pPath = "csv" /\ pDate = Absent /\ pAction = Absent /\ pOut = NotParsed

\* no file is being parsed and nothing is being loaded
IdleFile ==
    /\ posInput = NoInput /\ posContent = <<>>
    /\ posOut1 = NotCalled /\ posOut2 = NotCalled
    /\ txInput = NoFile
    /\ txEntry = "none" /\ txContent = <<>> /\ txName = Absent /\ txOut = NotCalled
    /\ lBody = NoBody /\ lOut = NotCalled

\* the quote client, the upload page, the password-reset routes and the text
\* helpers at rest
IdleQuote ==
    /\ qProvider = "yahoo" /\ qKey = TRUE /\ priceCache = <<>> /\ qClock = 0
    /\ qPc = <<>> /\ qCall = <<>>

IdleResave == sFirst = NotCalled /\ sSecond = NotCalled

IdlePage ==
    /\ positionsFile = Absent /\ transactionsFile = Absent /\ parsedData = Absent
    /\ pageError = <<>> /\ calls = <<>>

IdleAuth == users = <<>> /\ aClock = 0 /\ aMinted = 0 /\ aReq = <<>> /\ aLog = <<>>

IdleText == tInput = NotParsed /\ tOut = NotCalled

IdleLater == IdleQuote /\ IdleResave /\ IdlePage /\ IdleAuth /\ IdleText

Init == InitStore /\ IdleCalc /\ IdleParse /\ IdleFile /\ IdleLater

Next ==
    \E t \in Savers :
        \/ Request(t)
        \/ Upsert(t)
        \/ DeleteMany(t)
        \/ CreateManyHoldings(t)
        \/ CountTransactions(t)
        \/ CreateManyTransactions(t)
        \/ Commit(t)
        \/ UpsertFails(t)
        \/ Throw(t)
        \/ Rollback(t)
        \/ Respond(t)

Spec == Init /\ [][Next]_vars

----------------------------------------------------------------------------
(* Aggregator calls: two calls on the same arguments while the clock runs *)

InitCalc ==
    /\ cHoldings \in ListsOf({HoldingA, HoldingB, HoldingC, HoldingD}, MaxHoldings)
    /\ cTransactions \in ListsOf({TransactionA}, 1)
    /\ clock = 1
    /\ res1 = NotCalled
    /\ res2 = NotCalled

Tick ==
    /\ clock < MaxClock
    /\ clock' = clock + 1
    /\ UNCHANGED <<cHoldings, cTransactions, res1, res2, storeVars, parseVars, fileVars, laterVars>>

Returned(r) == [called |-> TRUE, value |-> r]

FirstCall ==
    /\ res1 = NotCalled
    /\ res1' = Returned(calculatePortfolioTotals(cHoldings, cTransactions, clock))
    /\ UNCHANGED <<cHoldings, cTransactions, clock, res2, storeVars, parseVars, fileVars, laterVars>>

SecondCall ==
    /\ res2 = NotCalled
    /\ res2' = Returned(calculatePortfolioTotals(cHoldings, cTransactions, clock))
    /\ UNCHANGED <<cHoldings, cTransactions, clock, res1, storeVars, parseVars, fileVars, laterVars>>

NextCalc ==
    \/ Tick
    \/ FirstCall
    \/ SecondCall

InitAggregator == InitStore /\ InitCalc /\ IdleParse /\ IdleFile /\ IdleLater

SpecCalc == InitAggregator /\ [][NextCalc]_vars

----------------------------------------------------------------------------
(* Text helpers: String.prototype methods on sequences of characters *)

UpperCase == <<"A","B","C","D","E","F","G","H","I","J","K","L","M",
               "N","O","P","Q","R","S","T","U","V","W","X","Y","Z">>
LowerCase == <<"a","b","c","d","e","f","g","h","i","j","k","l","m",
               "n","o","p","q","r","s","t","u","v","w","x","y","z">>

toLowerCase(s) ==
    [i \in 1..Len(s) |->
        IF \E k \in 1..Len(UpperCase) : UpperCase[k] = s[i]
        THEN LowerCase[CHOOSE k \in 1..Len(UpperCase) : UpperCase[k] = s[i]]
        ELSE s[i]]

\* s.includes(sub)
includes(s, sub) ==
    \E i \in 1..(Len(s) - Len(sub) + 1) : SubSeq(s, i, i + Len(sub) - 1) = sub

AllDigits(s) == \A i \in 1..Len(s) : s[i] \in Digits

\* s.padStart(2, '0')
padStart2(s) == IF Len(s) < 2 THEN <<"0">> \o s ELSE s

\* s.split('T')[0]
splitT0(s) ==
    IF \E i \in 1..Len(s) : s[i] = "T"
    THEN SubSeq(s, 1, (CHOOSE i \in 1..Len(s) : s[i] = "T" /\ \A j \in 1..(i - 1) : s[j] # "T") - 1)
    ELSE s

----------------------------------------------------------------------------
(* parseSchwabDate *)

NoMatch == [matched |-> FALSE]

\* dateStr.match(/^(\d{1,2})\/(\d{1,2})\/(\d{4})$/)
slashMatch(dateStr) ==
    LET fits(m, d) ==
            /\ Len(dateStr) = m + d + 6
            /\ AllDigits(SubSeq(dateStr, 1, m))
            /\ dateStr[m + 1] = "/"
            /\ AllDigits(SubSeq(dateStr, m + 2, m + d + 1))
            /\ dateStr[m + d + 2] = "/"
            /\ AllDigits(SubSeq(dateStr, m + d + 3, m + d + 6))
        lens == {md \in {1, 2} \X {1, 2} : fits(md[1], md[2])}
    IN  IF lens = {} THEN NoMatch
        ELSE LET md == CHOOSE x \in lens : TRUE
             IN  [matched |-> TRUE,
                  month |-> SubSeq(dateStr, 1, md[1]),
                  day |-> SubSeq(dateStr, md[1] + 2, md[1] + md[2] + 1),
                  year |-> SubSeq(dateStr, md[1] + md[2] + 3, md[1] + md[2] + 6)]

\* /^\d{4}-\d{2}-\d{2}/.test(dateStr)
isoPrefixTest(dateStr) ==
    /\ Len(dateStr) >= 10
    /\ AllDigits(SubSeq(dateStr, 1, 4)) /\ dateStr[5] = "-"
    /\ AllDigits(SubSeq(dateStr, 6, 7)) /\ dateStr[8] = "-"
    /\ AllDigits(SubSeq(dateStr, 9, 10))

\* new Date(dateStr) found no date
InvalidDate == [valid |-> FALSE, iso |-> <<>>]

\* instants new Date(dateStr) may denote for text outside the ISO format:
\* midnight local time east and west of Greenwich, as toISOString() prints it
ParsedInstants ==
    {[valid |-> TRUE, iso |-> <<"2","0","2","6","-","0","1","-","2","5","T","2","3",":","0","0",":","0","0",".","0","0","0","Z">>],
     [valid |-> TRUE, iso |-> <<"2","0","2","6","-","0","1","-","2","6","T","0","5",":","0","0",":","0","0",".","0","0","0","Z">>]}

\* new Date(dateStr) for text that reaches the general parser. What it accepts
\* beyond the ISO format is implementation-defined: text without a digit is
\* accepted by no engine, other text by some.
DateParse(dateStr) ==
    IF \E i \in 1..Len(dateStr) : dateStr[i] \in Digits
    THEN {InvalidDate} \cup ParsedInstants
    ELSE {InvalidDate}

\* now: the clock's reading; parsed: what new Date(dateStr) gave
parseSchwabDate(dateStr, now, parsed) ==
    IF dateStr = <<>> THEN toISOString(now)
    ELSE LET m == slashMatch(dateStr)
         IN  IF m.matched
             THEN m.year \o <<"-">> \o padStart2(m.month) \o <<"-">> \o padStart2(m.day)
             ELSE IF isoPrefixTest(dateStr) THEN dateStr
             ELSE IF parsed.valid THEN splitT0(parsed.iso)
             ELSE splitT0(toISOString(now))

----------------------------------------------------------------------------
(* Action classification of the two transaction parsers *)

KW_buy == <<"b","u","y">>
KW_sell == <<"s","e","l","l">>
KW_dividend == <<"d","i","v","i","d","e","n","d">>
KW_div == <<"d","i","v">>
KW_deposit == <<"d","e","p","o","s","i","t">>
KW_transfer_in == <<"t","r","a","n","s","f","e","r"," ","i","n">>
KW_withdraw == <<"w","i","t","h","d","r","a","w">>
KW_transfer_out == <<"t","r","a","n","s","f","e","r"," ","o","u","t">>
KW_reinvest == <<"r","e","i","n","v","e","s","t">>

\* variant of classifyCSV that tests sell before buy
classifyCSVSellFirst(actionRaw) ==
    IF includes(actionRaw, KW_sell) THEN "SELL"
    ELSE IF includes(actionRaw, KW_buy) THEN "BUY"
    ELSE IF includes(actionRaw, KW_dividend) \/ includes(actionRaw, KW_div) THEN "DIVIDEND"
    ELSE IF includes(actionRaw, KW_deposit) \/ includes(actionRaw, KW_transfer_in) THEN "DEPOSIT"
    ELSE IF includes(actionRaw, KW_withdraw) \/ includes(actionRaw, KW_transfer_out) THEN "WITHDRAWAL"
    ELSE "OTHER"

\* parseSchwabTransactionsCSV: the if / else-if chain over actionRaw
classifyCSV(actionRaw) ==
    IF includes(actionRaw, KW_buy) THEN "BUY"
    ELSE IF includes(actionRaw, KW_sell) THEN "SELL"
    ELSE IF includes(actionRaw, KW_dividend) \/ includes(actionRaw, KW_div) THEN "DIVIDEND"
    ELSE IF includes(actionRaw, KW_deposit) \/ includes(actionRaw, KW_transfer_in) THEN "DEPOSIT"
    ELSE IF includes(actionRaw, KW_withdraw) \/ includes(actionRaw, KW_transfer_out) THEN "WITHDRAWAL"
    ELSE "OTHER"

\* parseSchwabTransactionsJSON: the same chain with the reinvest rule last
classifyJSON(actionRaw) ==
    IF includes(actionRaw, KW_buy) THEN "BUY"
    ELSE IF includes(actionRaw, KW_sell) THEN "SELL"
    ELSE IF includes(actionRaw, KW_dividend) \/ includes(actionRaw, KW_div) THEN "DIVIDEND"
    ELSE IF includes(actionRaw, KW_deposit) \/ includes(actionRaw, KW_transfer_in) THEN "DEPOSIT"
    ELSE IF includes(actionRaw, KW_withdraw) \/ includes(actionRaw, KW_transfer_out) THEN "WITHDRAWAL"
    ELSE IF includes(actionRaw, KW_reinvest) THEN "DIVIDEND"
    ELSE "OTHER"

----------------------------------------------------------------------------
(* One record through a transactions parser *)

Field(s) == [present |-> TRUE, text |-> s]

\* tx.Date || "", tx.Action || "", and getValue of a column the row lacks
orEmpty(f) == IF f.present THEN f.text ELSE <<>>

Skipped == [kind |-> "skipped"]
Transaction(date, action) == [kind |-> "transaction", date |-> date, action |-> action]

\* date texts: M/D/YYYY with one- and two-digit parts, a two-digit year, ISO
\* dates with and without a time part, text no parser reads, and none
DateTexts ==
    {m \o <<"/">> \o d \o <<"/">> \o y :
        m \in {<<"1">>, <<"0","1">>, <<"1","2">>}, d \in {<<"6">>, <<"2","6">>}, y \in {<<"2","0","2","6">>, <<"2","6">>}}
    \cup {<<"2","0","2","6","-","0","1","-","2","6">>, <<"2","0","2","6","-","0","1","-","2","6">> \o <<"T","0","0",":","0","0",":","0","0","Z">>, <<"2","0","2","6","-","0","1","-","2","6">> \o <<" ","1","0",":","3","0">>, <<"J","a","n"," ","2","6",","," ","2","0","2","6">>, <<"n","/","a">>, <<>>}

ActionWords ==
    {<<"B","u","y">>, <<"S","e","l","l">>, <<"D","i","v">>, <<"Q","u","a","l","i","f","i","e","d"," ","D","i","v","i","d","e","n","d">>, <<"D","e","p","o","s","i","t">>, <<"T","r","a","n","s","f","e","r"," ","I","n">>,
     <<"W","i","t","h","d","r","a","w","a","l">>, <<"T","r","a","n","s","f","e","r"," ","O","u","t">>, <<"R","e","i","n","v","e","s","t"," ","S","h","a","r","e","s">>, <<"W","i","r","e"," ","T","r","a","n","s","f","e","r">>}

\* action texts: nothing, one phrase, or two phrases with a space between
ActionTexts ==
    {<<>>} \cup ActionWords \cup {a \o <<" ">> \o b : a \in ActionWords, b \in ActionWords}

InitParse ==
    /\ pPath \in {"csv", "json"}
    /\ pDate \in {Absent} \cup {Field(s) : s \in DateTexts}
    /\ pAction \in {Absent} \cup {Field(s) : s \in ActionTexts}
    /\ clock \in 1..MaxClock
    /\ pOut = NotParsed
    /\ cHoldings = <<>> /\ cTransactions = <<>>
    /\ res1 = NotCalled /\ res2 = NotCalled

\* parseSchwabTransactionsCSV, one data row: date and actionRaw are the
\* getValue results
ParseCSVRow ==
    /\ pPath = "csv"
    /\ pOut = NotParsed
    /\ LET date == orEmpty(pDate)
           actionRaw == toLowerCase(orEmpty(pAction))
       IN  IF date = <<>>
           THEN pOut' = Skipped
           ELSE \E parsed \in DateParse(date) :
                   pOut' = Transaction(parseSchwabDate(date, clock, parsed),
                                       classifyCSV(actionRaw))
    /\ UNCHANGED <<pPath, pDate, pAction, calcVars, storeVars, fileVars, laterVars>>

\* parseSchwabTransactionsJSON, one element of rawTransactions
ParseJSONRecord ==
    /\ pPath = "json"
    /\ pOut = NotParsed
    /\ LET actionRaw == toLowerCase(orEmpty(pAction))
           date == orEmpty(pDate)
       IN  \E parsed \in DateParse(date) :
               pOut' = Transaction(parseSchwabDate(date, clock, parsed),
                                   classifyJSON(actionRaw))
    /\ UNCHANGED <<pPath, pDate, pAction, calcVars, storeVars, fileVars, laterVars>>

NextParse ==
    \/ ParseCSVRow
    \/ ParseJSONRecord

InitParser == InitStore /\ InitParse /\ IdleFile /\ IdleLater

SpecParse == InitParser /\ [][NextParse]_vars

----------------------------------------------------------------------------
(* Whole-file text: more String.prototype methods on sequences of characters *)

WhiteSpace == {" ", "\t", "\r", "\n"}

RECURSIVE trimStart(_)
trimStart(s) == IF s # <<>> /\ Head(s) \in WhiteSpace THEN trimStart(Tail(s)) ELSE s

RECURSIVE trimEnd(_)
trimEnd(s) ==
    IF s # <<>> /\ s[Len(s)] \in WhiteSpace THEN trimEnd(SubSeq(s, 1, Len(s) - 1)) ELSE s

\* s.trim()
trim(s) == trimEnd(trimStart(s))

RECURSIVE split(_, _)
\* s.split(sep) for a separator of one character
split(s, sep) ==
    IF \E i \in 1..Len(s) : s[i] = sep
    THEN LET i == CHOOSE k \in 1..Len(s) : s[k] = sep /\ \A j \in 1..(k - 1) : s[j] # sep
         IN  <<SubSeq(s, 1, i - 1)>> \o split(SubSeq(s, i + 1, Len(s)), sep)
    ELSE <<s>>

startsWith(s, p) == Len(s) >= Len(p) /\ SubSeq(s, 1, Len(p)) = p

endsWith(s, p) == Len(s) >= Len(p) /\ SubSeq(s, Len(s) - Len(p) + 1, Len(s)) = p

toUpperCase(s) ==
    [i \in 1..Len(s) |->
        IF \E k \in 1..Len(LowerCase) : LowerCase[k] = s[i]
        THEN UpperCase[CHOOSE k \in 1..Len(LowerCase) : LowerCase[k] = s[i]]
        ELSE s[i]]

\* the characters of s that are not in drop, in order
RECURSIVE without(_, _)
without(s, drop) ==
    IF s = <<>> THEN <<>>
    ELSE IF Head(s) \in drop THEN without(Tail(s), drop)
    ELSE <<Head(s)>> \o without(Tail(s), drop)

----------------------------------------------------------------------------
(* Numbers: the values of the JavaScript number type the parsers produce,   *)
(* finite values kept exact as fractions in lowest terms                    *)

RECURSIVE gcd(_, _)
gcd(a, b) == IF b = 0 THEN a ELSE gcd(b, a % b)

AbsInt(i) == IF i < 0 THEN -i ELSE i

\* the finite number n / d, d # 0
Number(n, d) ==
    LET g == gcd(AbsInt(n), AbsInt(d))
        sgn == IF d < 0 THEN -1 ELSE 1
    IN  [k |-> "finite", n |-> (sgn * n) \div g, d |-> (sgn * d) \div g]

Zero == Number(0, 1)
NaN == [k |-> "NaN", n |-> 0, d |-> 0]
Infinity(sgn) == [k |-> "Infinity", n |-> sgn, d |-> 0]

\* the operators below are applied to finite operands only
Times(a, b) == Number(a.n * b.n, a.d * b.d)
Minus(a, b) == Number(a.n * b.d - b.n * a.d, a.d * b.d)

\* a / b: a zero divisor gives NaN or an infinity
Divide(a, b) ==
    IF b.n # 0 THEN Number(a.n * b.d, a.d * b.n)
    ELSE IF a.n = 0 THEN NaN
    ELSE Infinity(IF a.n > 0 THEN 1 ELSE -1)

\* a > 0
Positive(a) == a.k # "NaN" /\ a.n > 0

\* variant of MathAbs that keeps the sign
MathAbsKeepsSign(a) == a

\* Math.abs
MathAbs(a) == [a EXCEPT !.n = AbsInt(@)]

\* variant of OrElse that takes the derived value whatever the source holds
OrElseDerived(a, b) == b

\* a || b on numbers: 0 and NaN are falsy
OrElse(a, b) == IF a.k = "NaN" \/ (a.k = "finite" /\ a.n = 0) THEN b ELSE a

DigitValue(c) == CHOOSE v \in 0..9 : <<"0","1","2","3","4","5","6","7","8","9">>[v + 1] = c

RECURSIVE digitsValue(_, _)
digitsValue(s, acc) ==
    IF s = <<>> THEN acc ELSE digitsValue(Tail(s), acc * 10 + DigitValue(Head(s)))

RECURSIVE power10(_)
power10(e) == IF e = 0 THEN 1 ELSE 10 * power10(e - 1)

\* the longest run of digits s starts with
RECURSIVE digitRun(_)
digitRun(s) ==
    IF s # <<>> /\ Head(s) \in Digits THEN <<Head(s)>> \o digitRun(Tail(s)) ELSE <<>>

\* parseFloat(s) of text without leading white space: the longest prefix that
\* is a sign, digits and a fraction (an exponent and the word Infinity are not
\* among the texts parsed here)
parseFloat(s) ==
    LET negative == s # <<>> /\ Head(s) = "-"
        signed == s # <<>> /\ Head(s) \in {"-", "+"}
        body == IF signed THEN Tail(s) ELSE s
        whole == digitRun(body)
        rest == SubSeq(body, Len(whole) + 1, Len(body))
        fraction == IF rest # <<>> /\ Head(rest) = "." THEN digitRun(Tail(rest)) ELSE <<>>
    IN  IF whole = <<>> /\ fraction = <<>> THEN NaN
        ELSE Number((IF negative THEN -1 ELSE 1) * digitsValue(whole \o fraction, 0),
                    power10(Len(fraction)))

isNaN(x) == x.k = "NaN"

\* variant of cleaned without the rewriting of parentheses
cleanedKeepsParentheses(value) == without(value, {"$", ","} \cup WhiteSpace)

\* value.replace(/[$,\s]/g, "").replace(/^\((.+)\)$/, "-$1")
cleaned(value) ==
    LET stripped == without(value, {"$", ","} \cup WhiteSpace)
    IN  IF Len(stripped) >= 3 /\ Head(stripped) = "(" /\ stripped[Len(stripped)] = ")"
        THEN <<"-">> \o SubSeq(stripped, 2, Len(stripped) - 1)
        ELSE stripped

parseNumber(value) ==
    IF value = <<>> THEN Zero
    ELSE LET num == parseFloat(cleaned(value))
         IN  IF isNaN(num) THEN Zero ELSE num

----------------------------------------------------------------------------
(* The CSV helpers of the parser module *)

\* the value of inQuotes when the loop of parseCSVLine reaches character i:
\* every quote before it has toggled the flag
inQuotesAt(line, i) == Cardinality({j \in 1..(i - 1) : line[j] = "\""}) % 2 = 1

\* the loop of parseCSVLine, field by field: a comma outside quotes ends a
\* field, a quote is never added to current, each field is pushed trimmed
parseCSVLine(line) ==
    LET commas == {i \in 1..Len(line) : line[i] = "," /\ ~inQuotesAt(line, i)}
        nth(k) == CHOOSE i \in commas : Cardinality({j \in commas : j < i}) = k - 1
        first(k) == IF k = 1 THEN 1 ELSE nth(k - 1) + 1
        last(k) == IF k = Cardinality(commas) + 1 THEN Len(line) ELSE nth(k) - 1
    IN  [k \in 1..(Cardinality(commas) + 1) |->
            trim(without(SubSeq(line, first(k), last(k)), {"\""}))]

\* headers.findIndex((h) => h.includes(name)), counted from 0
findIndex(headers, name) ==
    IF \E i \in 1..Len(headers) : includes(headers[i], name)
    THEN (CHOOSE i \in 1..Len(headers) :
              includes(headers[i], name) /\ \A j \in 1..(i - 1) : ~includes(headers[j], name)) - 1
    ELSE -1

\* variant of findColumn that goes through the headers first
findColumnByHeader(headers, possibleNames) ==
    IF \E i \in 1..Len(headers), n \in 1..Len(possibleNames) : includes(headers[i], possibleNames[n])
    THEN (CHOOSE i \in 1..Len(headers) :
              /\ \E n \in 1..Len(possibleNames) : includes(headers[i], possibleNames[n])
              /\ \A j \in 1..(i - 1) : \A n \in 1..Len(possibleNames) :
                     ~includes(headers[j], possibleNames[n])) - 1
    ELSE -1

RECURSIVE findColumn(_, _)
findColumn(headers, possibleNames) ==
    IF possibleNames = <<>> THEN -1
    ELSE LET index == findIndex(headers, Head(possibleNames))
         IN  IF index # -1 THEN index ELSE findColumn(headers, Tail(possibleNames))

\* s.replace(/^"|"$/g, "")
stripQuotes(s) ==
    LET a == IF s # <<>> /\ Head(s) = "\"" THEN Tail(s) ELSE s
    IN  IF a # <<>> /\ a[Len(a)] = "\"" THEN SubSeq(a, 1, Len(a) - 1) ELSE a

getValue(values, index) ==
    IF index < 0 \/ index >= Len(values) THEN <<>>
    ELSE trim(stripQuotes(values[index + 1]))

\* the header cells: parseCSVLine(line).map((h) => h.toLowerCase().trim())
headerCells(line) ==
    LET cells == parseCSVLine(line)
    IN  [i \in 1..Len(cells) |-> trim(toLowerCase(cells[i]))]

----------------------------------------------------------------------------
(* parseSchwabPositionsCSV *)

positionsHeaderTest(line) ==
    includes(line, <<"s","y","m","b","o","l">>) /\ (includes(line, <<"q","u","a","n","t","i","t","y">>) \/ includes(line, <<"s","h","a","r","e","s">>))

\* variant of positionsHeaderIndex that keeps the index in a place the clock moves
positionsHeaderIndexShared(lines) == clock - 1

\* the header search of the positions parser: the index, counted from 0, of
\* the first line that passes the test, or 0 when no line does
positionsHeaderIndex(lines) ==
    IF \E i \in 1..Len(lines) : positionsHeaderTest(toLowerCase(lines[i]))
    THEN (CHOOSE i \in 1..Len(lines) :
              positionsHeaderTest(toLowerCase(lines[i]))
              /\ \A j \in 1..(i - 1) : ~positionsHeaderTest(toLowerCase(lines[j]))) - 1
    ELSE 0

\* the nine findColumn calls of the positions parser
positionsColumns(headers) ==
    [symbolCol |-> findColumn(headers, << <<"s","y","m","b","o","l">>, <<"t","i","c","k","e","r">> >>),
     nameCol |-> findColumn(headers, << <<"d","e","s","c","r","i","p","t","i","o","n">>, <<"n","a","m","e">>, <<"s","e","c","u","r","i","t","y">> >>),
     quantityCol |-> findColumn(headers, << <<"q","u","a","n","t","i","t","y">>, <<"s","h","a","r","e","s">>, <<"q","t","y">> >>),
     priceCol |-> findColumn(headers, << <<"p","r","i","c","e">>, <<"c","u","r","r","e","n","t"," ","p","r","i","c","e">>, <<"l","a","s","t"," ","p","r","i","c","e">>, <<"m","a","r","k","e","t"," ","p","r","i","c","e">> >>),
     marketValueCol |-> findColumn(headers, << <<"m","a","r","k","e","t"," ","v","a","l","u","e">>, <<"v","a","l","u","e">>, <<"t","o","t","a","l"," ","v","a","l","u","e">> >>),
     costBasisCol |-> findColumn(headers, << <<"c","o","s","t"," ","b","a","s","i","s">>, <<"c","o","s","t">>, <<"t","o","t","a","l"," ","c","o","s","t">>, <<"b","o","o","k"," ","c","o","s","t">> >>),
     costPerShareCol |-> findColumn(headers, << <<"c","o","s","t","/","s","h","a","r","e">>, <<"a","v","g"," ","c","o","s","t">>, <<"a","v","e","r","a","g","e"," ","c","o","s","t">>, <<"c","o","s","t"," ","p","e","r"," ","s","h","a","r","e">> >>),
     gainLossCol |-> findColumn(headers, << <<"g","a","i","n","/","l","o","s","s">>, <<"g","a","i","n"," ","l","o","s","s">>, <<"u","n","r","e","a","l","i","z","e","d"," ","g","a","i","n">>, <<"u","n","r","e","a","l","i","z","e","d"," ","g","a","i","n","/","l","o","s","s">> >>),
     gainLossPctCol |-> findColumn(headers, << <<"g","a","i","n","/","l","o","s","s"," ","%">>, <<"g","a","i","n"," ","l","o","s","s"," ","%">>, <<"%"," ","g","a","i","n","/","l","o","s","s">>, <<"u","n","r","e","a","l","i","z","e","d"," ","g","a","i","n"," ","%">> >>)]

Hundred == Number(100, 1)

\* variant of symbolSkipped that compares the letters as written
symbolSkippedAsWritten(symbol) ==
    symbol = <<>> \/ symbol = <<"c","a","s","h">> \/ symbol = <<"-","-">>

\* !symbol || symbol === "" || symbol.toLowerCase() === "cash" || symbol === "--"
symbolSkipped(symbol) ==
    symbol = <<>> \/ toLowerCase(symbol) = <<"c","a","s","h">> \/ symbol = <<"-","-">>

\* variant of quantityIncluded that lets every row through
quantityIncludedAlways(quantity) == TRUE

\* if (quantity > 0)
quantityIncluded(quantity) == Positive(quantity)

\* the body of the positions loop for one line: the line is skipped, or read
\* and excluded by the quantity guard, or pushed as a Holding
positionsRow(rawLine, col) ==
    LET line == trim(rawLine)
    IN  IF line = <<>> \/ startsWith(line, <<"\"","\"">>) \/ includes(toLowerCase(line), <<"t","o","t","a","l">>)
        THEN [kind |-> "skipped"]
        ELSE
        LET values == parseCSVLine(line)
            symbol == getValue(values, col.symbolCol)
        IN  IF symbolSkipped(symbol)
            THEN [kind |-> "skipped"]
            ELSE
            LET quantity == parseNumber(getValue(values, col.quantityCol))
                currentPrice == parseNumber(getValue(values, col.priceCol))
                marketValue == OrElse(parseNumber(getValue(values, col.marketValueCol)),
                                      Times(quantity, currentPrice))
                costBasis == parseNumber(getValue(values, col.costBasisCol))
                costPerShare == OrElse(OrElse(parseNumber(getValue(values, col.costPerShareCol)),
                                              Divide(costBasis, quantity)), Zero)
                gainLoss == OrElse(parseNumber(getValue(values, col.gainLossCol)),
                                   Minus(marketValue, costBasis))
                gainLossPercent ==
                    OrElse(parseNumber(getValue(values, col.gainLossPctCol)),
                           IF Positive(costBasis)
                           THEN Times(Divide(Minus(marketValue, costBasis), costBasis), Hundred)
                           ELSE Zero)
                name == getValue(values, col.nameCol)
            IN  IF quantityIncluded(quantity)
                THEN [kind |-> "holding",
                      holding |-> [symbol |-> toUpperCase(symbol),
                                   name |-> IF name # <<>> THEN name ELSE symbol,
                                   quantity |-> quantity, costPerShare |-> costPerShare,
                                   currentPrice |-> currentPrice, marketValue |-> marketValue,
                                   gainLoss |-> gainLoss, gainLossPercent |-> gainLossPercent]]
                ELSE [kind |-> "excluded"]

RECURSIVE positionsLoop(_, _, _, _)
\* for (let i = headerIndex + 1; i < lines.length; i++), i counted from 0
positionsLoop(lines, i, col, holdings) ==
    IF i >= Len(lines) THEN holdings
    ELSE LET row == positionsRow(lines[i + 1], col)
         IN  positionsLoop(lines, i + 1, col,
                           IF row.kind = "holding" THEN Append(holdings, row.holding)
                           ELSE holdings)

parseSchwabPositionsCSV(csvContent) ==
    LET lines == split(trim(csvContent), "\n")
    IN  IF Len(lines) < 2 THEN <<>>
        ELSE LET headerIndex == positionsHeaderIndex(lines)
                 headers == headerCells(lines[headerIndex + 1])
             IN  positionsLoop(lines, headerIndex + 1, positionsColumns(headers), <<>>)

----------------------------------------------------------------------------
(* Positions files: the text of a file is written from its header and rows *)

\* parts.join(sep)
RECURSIVE join(_, _)
join(parts, sep) ==
    IF Len(parts) = 0 THEN <<>>
    ELSE IF Len(parts) = 1 THEN Head(parts)
    ELSE Head(parts) \o <<sep>> \o join(Tail(parts), sep)

\* a CSV field as an export writes it: in quotes when it holds a comma
csvField(s) == IF \E i \in 1..Len(s) : s[i] = "," THEN <<"\"">> \o s \o <<"\"">> ELSE s

ShortHeader == <<"S","y","m","b","o","l",",","D","e","s","c","r","i","p","t","i","o","n",",","Q","u","a","n","t","i","t","y",",","P","r","i","c","e",",","M","a","r","k","e","t"," ","V","a","l","u","e",",","C","o","s","t"," ","B","a","s","i","s">>
FullHeader == ShortHeader \o <<",","C","o","s","t","/","S","h","a","r","e",",","G","a","i","n","/","L","o","s","s",",","G","a","i","n","/","L","o","s","s"," ","%">>
MetadataLine == <<"\"","P","o","s","i","t","i","o","n","s"," ","f","o","r"," ","a","c","c","o","u","n","t"," ","X","X","X","X","-","1","2","3","4"," ","a","s"," ","o","f"," ","0","9",":","3","0"," ","A","M"," ","E","T",","," ","2","0","2","6","/","0","1","/","2","6","\"">>

PositionRow(symbol, name, quantity, price, marketValue, costBasis, costPerShare, gainLoss, gainLossPct) ==
    [kind |-> "data", symbol |-> symbol, name |-> name, quantity |-> quantity,
     price |-> price, marketValue |-> marketValue, costBasis |-> costBasis,
     costPerShare |-> costPerShare, gainLoss |-> gainLoss, gainLossPct |-> gainLossPct]

\* a line that is no position: blank, the empty quoted marker, the totals line
OtherLine(kind) ==
    [kind |-> kind, symbol |-> <<>>, name |-> <<>>, quantity |-> <<>>,
     price |-> <<>>, marketValue |-> <<>>, costBasis |-> <<>>,
     costPerShare |-> <<>>, gainLoss |-> <<>>, gainLossPct |-> <<>>]

rowText(row, full) ==
    CASE row.kind = "blank" -> <<" "," ">>
      [] row.kind = "marker" -> <<"\"","\"",",",",",",",",",",">>
      [] row.kind = "total" -> <<"A","c","c","o","u","n","t"," ","T","o","t","a","l",",",",",",",",","\"","$","3",",","0","0","0",".","0","0","\"",",","\"","$","2",",","0","0","0",".","0","0","\"">>
      [] OTHER ->
            join([i \in 1..6 |-> csvField(<<row.symbol, row.name, row.quantity, row.price,
                                            row.marketValue, row.costBasis>>[i])], ",")
            \o (IF full
                THEN <<",">> \o join([i \in 1..3 |-> csvField(<<row.costPerShare, row.gainLoss,
                                                                row.gainLossPct>>[i])], ",")
                ELSE <<>>)

fileText(input) ==
    (IF input.metadata THEN MetadataLine \o <<"\n">> ELSE <<>>)
    \o (IF input.full THEN FullHeader ELSE ShortHeader) \o <<"\n">>
    \o join([i \in 1..Len(input.rows) |-> rowText(input.rows[i], input.full)], "\n")
    \o <<"\n">>

\* rows under the short header: symbols that are kept and symbols that are
\* not, quantities above, at and below zero and one that is no number
ShortRows ==
    {PositionRow(symbol, <<"A","p","p","l","e"," ","I","n","c",".">>, quantity, <<"1","5","0",".","0","0">>, marketValue, costBasis, <<>>, <<>>, <<>>) :
        symbol \in {<<"A","A","P","L">>, <<"a","a","p","l">>, <<"C","a","s","h">>, <<"-","-">>, <<>>},
        quantity \in {<<"1","0">>, <<"0">>, <<"-","5">>, <<"n","/","a">>},
        marketValue \in {<<"1","5","0","0",".","0","0">>, <<>>},
        costBasis \in {<<"1","0","0","0",".","0","0">>, <<"0">>}}

\* rows under the full header: each source value present or absent
FullRows ==
    {PositionRow(<<"A","A","P","L">>, <<>>, quantity, <<"1","5","0",".","0","0">>, marketValue, costBasis, costPerShare, gainLoss, gainLossPct) :
        quantity \in {<<"1","0">>, <<"0">>},
        marketValue \in {<<"$","1",",","5","0","0",".","0","0">>, <<>>},
        costBasis \in {<<"1","0","0","0",".","0","0">>, <<"0">>},
        costPerShare \in {<<"9","0",".","0","0">>, <<>>},
        gainLoss \in {<<"7","0","0",".","0","0">>, <<"(","2","0","0",".","0","0",")">>, <<>>},
        gainLossPct \in {<<"7","0">>, <<>>}}

\* the lines of the files of two rows
MixedRows ==
    {PositionRow(<<"A","A","P","L">>, <<"A","p","p","l","e"," ","I","n","c",".">>, <<"1","0">>, <<"1","5","0",".","0","0">>, <<"1","5","0","0",".","0","0">>, <<"1","0","0","0",".","0","0">>, <<>>, <<>>, <<>>),
     PositionRow(<<"m","s","f","t">>, <<"M","i","c","r","o","s","o","f","t"," ","C","o","r","p">>, <<"0">>, <<"4","0","0",".","0","0">>, <<"0">>, <<"0">>, <<>>, <<>>, <<>>),
     PositionRow(<<"V","T","I">>, <<"V","a","n","g","u","a","r","d"," ","T","o","t","a","l"," ","S","t","o","c","k"," ","M","a","r","k","e","t"," ","E","T","F">>, <<"4">>, <<"2","5","0",".","0","0">>, <<"1","0","0","0",".","0","0">>, <<"8","0","0",".","0","0">>, <<>>, <<>>, <<>>),
     PositionRow(<<"n","v","d","a">>, <<"N","V","I","D","I","A"," ","C","o","r","p">>, <<"2">>, <<"9","0",".","5","0">>, <<>>, <<"1","2","0",".","2","5">>, <<>>, <<>>, <<>>),
     PositionRow(<<"C","A","S","H">>, <<"C","a","s","h"," ","&"," ","C","a","s","h"," ","I","n","v","e","s","t","m","e","n","t","s">>, <<"1">>, <<"1",".","0","0">>, <<"5","0","0",".","0","0">>, <<"5","0","0",".","0","0">>, <<>>, <<>>, <<>>),
     OtherLine("blank"), OtherLine("marker"), OtherLine("total")}

PositionsInputs ==
    {[metadata |-> FALSE, full |-> FALSE, rows |-> <<r>>] : r \in ShortRows}
    \cup {[metadata |-> FALSE, full |-> TRUE, rows |-> <<r>>] : r \in FullRows}
    \cup {[metadata |-> TRUE, full |-> FALSE, rows |-> <<r1, r2>>] : r1 \in MixedRows, r2 \in MixedRows}
    \cup {[metadata |-> FALSE, full |-> FALSE, rows |-> <<>>]}

InitPositions ==
    /\ posInput \in PositionsInputs
    /\ posContent = fileText(posInput)
    /\ posOut1 = NotCalled /\ posOut2 = NotCalled
    /\ txInput = NoFile
    /\ txInput = NoFile
    /\ txEntry = "none" /\ txContent = <<>> /\ txName = Absent /\ txOut = NotCalled
    /\ lBody = NoBody /\ lOut = NotCalled

\* the upload page parses the text of a positions file
ParsePositions ==
    /\ posContent # <<>>
    /\ posOut1 = NotCalled
    /\ posOut1' = Returned(parseSchwabPositionsCSV(posContent))
    /\ UNCHANGED <<posInput, posContent, posOut2, txInput, txEntry, txContent, txName, txOut, lBody, lOut,
                   storeVars, calcVars, parseVars, laterVars>>

\* the same text parsed once more, at any later time
ParsePositionsAgain ==
    /\ posOut1 # NotCalled
    /\ posOut2 = NotCalled
    /\ posOut2' = Returned(parseSchwabPositionsCSV(posContent))
    /\ UNCHANGED <<posInput, posContent, posOut1, txInput, txEntry, txContent, txName, txOut, lBody, lOut,
                   storeVars, calcVars, parseVars, laterVars>>

NextPositions ==
    \/ ParsePositions
    \/ ParsePositionsAgain
    \/ Tick

InitPositionsParser == InitStore /\ IdleCalc /\ IdleParse /\ InitPositions /\ IdleLater

SpecPositions == InitPositionsParser /\ [][NextPositions]_vars

----------------------------------------------------------------------------
(* JavaScript values as JSON.parse returns them, and what throws on them *)

Undefined == [t |-> "undefined"]
Null == [t |-> "null"]
Str(s) == [t |-> "string", s |-> s]
Num(x) == [t |-> "number", x |-> x]
Arr(items) == [t |-> "array", items |-> items]
\* an object: its own keys, and the value of each
Obj(keys, of) == [t |-> "object", keys |-> keys, of |-> of]

\* a call returned value, or threw
Returns(value) == [threw |-> FALSE, value |-> value]
Throws == [threw |-> TRUE, value |-> <<>>]

\* v[key]: reading a property of undefined or null throws a TypeError
property(v, key) ==
    IF v.t \in {"undefined", "null"} THEN Throws
    ELSE IF v.t = "object" /\ key \in v.keys THEN Returns(v.of[key])
    ELSE Returns(Undefined)

truthy(v) ==
    CASE v.t \in {"undefined", "null"} -> FALSE
      [] v.t = "string" -> v.s # <<>>
      [] v.t = "number" -> v.x.k # "NaN" /\ v.x.n # 0
      [] OTHER -> TRUE

\* a || b
orValue(a, b) == IF truthy(a) THEN a ELSE b

\* a String.prototype method called on v: on a value that is no string the
\* method is undefined and the call throws a TypeError
asString(v) == IF v.t = "string" THEN Returns(v.s) ELSE Throws

\* for (const tx of v): arrays and strings are iterable, the rest throws
iterate(v) ==
    CASE v.t = "array" -> Returns(v.items)
      [] v.t = "string" -> Returns([i \in 1..Len(v.s) |-> Str(<<v.s[i]>>)])
      [] OTHER -> Throws

----------------------------------------------------------------------------
(* parseSchwabTransactionsJSON *)

\* the documents of the model and the values they denote
ExampleBlob ==
    <<"{","\"","B","r","o","k","e","r","a","g","e","T","r","a","n","s","a","c","t","i","o","n","s","\"",":","[","{","\"","A","c","t","i","o","n","\"",":","\"","S","e","l","l","\"",",","\"","S","y","m","b","o","l","\"",":","\"","a","a","p","l","\"",",","\"","Q","u","a","n","t","i","t","y","\"",":","\"","-","1","0","\"",",","\"","P","r","i","c","e","\"",":","\"","1","5","0",".","0","0","\"",",","\"","A","m","o","u","n","t","\"",":","\"","1","5","0","0",".","0","0","\"","}","]","}">>

ExampleValue ==
    Obj({"BrokerageTransactions"},
        [key \in {"BrokerageTransactions"} |->
            Arr(<<Obj({"Action", "Symbol", "Quantity", "Price", "Amount"},
                      [Action |-> Str(<<"S","e","l","l">>), Symbol |-> Str(<<"a","a","p","l">>),
                       Quantity |-> Str(<<"-","1","0">>), Price |-> Str(<<"1","5","0",".","0","0">>),
                       Amount |-> Str(<<"1","5","0","0",".","0","0">>)])>>)])

TwoRecordsBlob ==
    <<" ","{","\"","t","r","a","n","s","a","c","t","i","o","n","s","\"",":","[","{","\"","D","a","t","e","\"",":","\"","0","1","/","2","6","/","2","0","2","6","\"",",","\"","A","c","t","i","o","n","\"",":","\"","B","u","y","\"",",","\"","S","y","m","b","o","l","\"",":","\"","M","S","F","T","\"",",","\"","D","e","s","c","r","i","p","t","i","o","n","\"",":","\"","M","I","C","R","O","S","O","F","T"," ","C","O","R","P","\"",",","\"","Q","u","a","n","t","i","t","y","\"",":","\"","5","\"",",","\"","P","r","i","c","e","\"",":","\"","4","0","0",".","0","0","\"",",","\"","F","e","e","s"," ","&"," ","C","o","m","m","\"",":","\"","$","4",".","9","5","\"",",","\"","A","m","o","u","n","t","\"",":","\"","-","$","2",",","0","0","4",".","9","5","\"","}",",","{","\"","D","a","t","e","\"",":","\"","2","0","2","6","-","0","1","-","2","7","\"",",","\"","A","c","t","i","o","n","\"",":","\"","R","e","i","n","v","e","s","t"," ","S","h","a","r","e","s","\"",",","\"","Q","u","a","n","t","i","t","y","\"",":","\"","0",".","5","\"",",","\"","A","m","o","u","n","t","\"",":","\"","(","2","0","0",".","0","0",")","\"","}","]","}">>

TwoRecordsValue ==
    Obj({"transactions"},
        [key \in {"transactions"} |->
            Arr(<<Obj({"Date", "Action", "Symbol", "Description", "Quantity", "Price", "Fees & Comm", "Amount"},
                      [key2 \in {"Date", "Action", "Symbol", "Description", "Quantity", "Price", "Fees & Comm", "Amount"} |->
                          CASE key2 = "Date" -> Str(<<"0","1","/","2","6","/","2","0","2","6">>)
                            [] key2 = "Action" -> Str(<<"B","u","y">>)
                            [] key2 = "Symbol" -> Str(<<"M","S","F","T">>)
                            [] key2 = "Description" -> Str(<<"M","I","C","R","O","S","O","F","T"," ","C","O","R","P">>)
                            [] key2 = "Quantity" -> Str(<<"5">>)
                            [] key2 = "Price" -> Str(<<"4","0","0",".","0","0">>)
                            [] key2 = "Fees & Comm" -> Str(<<"$","4",".","9","5">>)
                            [] OTHER -> Str(<<"-","$","2",",","0","0","4",".","9","5">>)]),
                  Obj({"Date", "Action", "Quantity", "Amount"},
                      [Date |-> Str(<<"2","0","2","6","-","0","1","-","2","7">>), Action |-> Str(<<"R","e","i","n","v","e","s","t"," ","S","h","a","r","e","s">>),
                       Quantity |-> Str(<<"0",".","5">>), Amount |-> Str(<<"(","2","0","0",".","0","0",")">>)])>>)])

OneKey(key, value) == Obj({key}, [k \in {key} |-> value])

\* documents whose value is not what the parser expects
OddDocuments ==
    << <<<<"[","]">>, Arr(<<>>)>>,
       <<<<"n","u","l","l">>, Null>>,
       <<<<"{","}">>, Obj({}, <<>>)>>,
       <<<<"{","\"","B","r","o","k","e","r","a","g","e","T","r","a","n","s","a","c","t","i","o","n","s","\"",":","[","{","\"","A","c","t","i","o","n","\"",":","\"","B","u","y","\"",",","\"","Q","u","a","n","t","i","t","y","\"",":","1","0","}","]","}">>,
         OneKey("BrokerageTransactions",
                Arr(<<Obj({"Action", "Quantity"}, [Action |-> Str(<<"B","u","y">>), Quantity |-> Num(Number(10, 1))])>>))>>,
       <<<<"{","\"","B","r","o","k","e","r","a","g","e","T","r","a","n","s","a","c","t","i","o","n","s","\"",":","[","n","u","l","l","]","}">>, OneKey("BrokerageTransactions", Arr(<<Null>>))>>,
       <<<<"{","\"","B","r","o","k","e","r","a","g","e","T","r","a","n","s","a","c","t","i","o","n","s","\"",":","{","\"","a","\"",":","1","}","}">>,
         OneKey("BrokerageTransactions", OneKey("a", Num(Number(1, 1))))>>,
       <<<<"{","\"","B","r","o","k","e","r","a","g","e","T","r","a","n","s","a","c","t","i","o","n","s","\"",":","\"","a","b","\"","}">>, OneKey("BrokerageTransactions", Str(<<"a","b">>))>>,
       <<<<"{","\"","B","r","o","k","e","r","a","g","e","T","r","a","n","s","a","c","t","i","o","n","s","\"",":","[","{","\"","A","c","t","i","o","n","\"",":","7","}","]","}">>,
         OneKey("BrokerageTransactions", Arr(<<OneKey("Action", Num(Number(7, 1)))>>))>> >>

Documents == << <<ExampleBlob, ExampleValue>>, <<TwoRecordsBlob, TwoRecordsValue>> >> \o OddDocuments

\* text that starts like a document and is none
BrokenBlob == <<"{","\"","B","r","o","k","e","r","a","g","e","T","r","a","n","s","a","c","t","i","o","n","s","\"",":","[">>

\* JSON.parse(text): the value of a document, a SyntaxError for other text
JSONparse(text) ==
    IF \E i \in 1..Len(Documents) : Documents[i][1] = text
    THEN Returns(Documents[CHOOSE i \in 1..Len(Documents) : Documents[i][1] = text][2])
    ELSE Throws

\* parseNumber(v || "0") of a JSON value: value.replace is called on it
parseNumberOr0(v) ==
    LET value == orValue(v, Str(<<"0">>))
    IN  IF value.t = "string" THEN Returns(parseNumber(value.s)) ELSE Throws

\* what new Date(dateStr) gives in this run, where the text reaches it
dateParsed(dateStr, parsed) == IF parsed \in DateParse(dateStr) THEN parsed ELSE InvalidDate

\* the body of the for-of loop for one element of rawTransactions
jsonRecord(tx, now, parsed) ==
    LET get(key) == property(tx, key)
    IN  IF get("Action").threw THEN Throws
        ELSE
        LET actionText == asString(orValue(get("Action").value, Str(<<>>)))
            dateText == asString(orValue(get("Date").value, Str(<<>>)))
            symbolText == asString(orValue(get("Symbol").value, Str(<<"-","-">>)))
            description == orValue(get("Description").value, Str(<<>>))
            quantity == parseNumberOr0(get("Quantity").value)
            price == parseNumberOr0(get("Price").value)
            fees == parseNumberOr0(orValue(get("Fees & Comm").value, get("Fees").value))
            amount == parseNumberOr0(get("Amount").value)
        IN  IF \/ actionText.threw \/ dateText.threw \/ symbolText.threw
               \/ quantity.threw \/ price.threw \/ fees.threw \/ amount.threw
            THEN Throws
            ELSE Returns(
                [date |-> parseSchwabDate(dateText.value, now, dateParsed(dateText.value, parsed)),
                 action |-> classifyJSON(toLowerCase(actionText.value)),
                 symbol |-> toUpperCase(symbolText.value),
                 description |-> IF description.t = "string" THEN description.s ELSE description,
                 quantity |-> MathAbs(quantity.value),
                 price |-> price.value,
                 fees |-> fees.value,
                 amount |-> amount.value])

\* the try block of parseSchwabTransactionsJSON (document is its local data)
jsonTry(jsonContent, now, parsed) ==
    LET document == JSONparse(jsonContent)
    IN  IF document.threw THEN Throws
        ELSE
        LET primary == property(document.value, "BrokerageTransactions")
        IN  IF primary.threw THEN Throws
            ELSE
            LET rawTransactions ==
                    orValue(orValue(primary.value, property(document.value, "transactions").value),
                            Arr(<<>>))
                elements == iterate(rawTransactions)
            IN  IF elements.threw THEN Throws
                ELSE
                LET records == [i \in 1..Len(elements.value) |->
                                   jsonRecord(elements.value[i], now, parsed)]
                IN  IF \E i \in 1..Len(records) : records[i].threw THEN Throws
                    ELSE Returns([i \in 1..Len(records) |-> records[i].value])

\* variant of catchError without the catch clause
catchErrorAbsent(outcome) == outcome

\* catch (error) { console.error(...); return []; }
catchError(outcome) == IF outcome.threw THEN Returns(<<>>) ELSE outcome

parseSchwabTransactionsJSON(jsonContent, now, parsed) ==
    catchError(jsonTry(jsonContent, now, parsed))

----------------------------------------------------------------------------
(* parseSchwabTransactionsCSV and parseSchwabTransactions *)

transactionsHeaderTest(line) == includes(line, <<"d","a","t","e">>) /\ includes(line, <<"a","c","t","i","o","n">>)

\* variant of transactionsHeaderIndex that answers -1 when no line passes
transactionsHeaderIndexOrNone(lines) ==
    IF \E i \in 1..Len(lines) : transactionsHeaderTest(toLowerCase(lines[i]))
    THEN (CHOOSE i \in 1..Len(lines) :
              transactionsHeaderTest(toLowerCase(lines[i]))
              /\ \A j \in 1..(i - 1) : ~transactionsHeaderTest(toLowerCase(lines[j]))) - 1
    ELSE -1

\* the header search of the transactions parser, counted from 0
transactionsHeaderIndex(lines) ==
    IF \E i \in 1..Len(lines) : transactionsHeaderTest(toLowerCase(lines[i]))
    THEN (CHOOSE i \in 1..Len(lines) :
              transactionsHeaderTest(toLowerCase(lines[i]))
              /\ \A j \in 1..(i - 1) : ~transactionsHeaderTest(toLowerCase(lines[j]))) - 1
    ELSE 0

\* the eight findColumn calls of the transactions parser
transactionsColumns(headers) ==
    [dateCol |-> findColumn(headers, << <<"d","a","t","e">>, <<"t","r","a","d","e"," ","d","a","t","e">> >>),
     actionCol |-> findColumn(headers, << <<"a","c","t","i","o","n">>, <<"t","y","p","e">>, <<"t","r","a","n","s","a","c","t","i","o","n"," ","t","y","p","e">> >>),
     symbolCol |-> findColumn(headers, << <<"s","y","m","b","o","l">>, <<"t","i","c","k","e","r">> >>),
     descCol |-> findColumn(headers, << <<"d","e","s","c","r","i","p","t","i","o","n">>, <<"n","a","m","e">>, <<"s","e","c","u","r","i","t","y">> >>),
     quantityCol |-> findColumn(headers, << <<"q","u","a","n","t","i","t","y">>, <<"s","h","a","r","e","s">>, <<"q","t","y">> >>),
     priceCol |-> findColumn(headers, << <<"p","r","i","c","e">> >>),
     feesCol |-> findColumn(headers, << <<"f","e","e","s"," ","&"," ","c","o","m","m">>, <<"f","e","e","s">>, <<"c","o","m","m","i","s","s","i","o","n">>, <<"f","e","e","s"," ","&"," ","c","o","m","m","i","s","s","i","o","n">> >>),
     amountCol |-> findColumn(headers, << <<"a","m","o","u","n","t">>, <<"t","o","t","a","l">>, <<"n","e","t"," ","a","m","o","u","n","t">> >>)]

\* variant of dateMissing that also drops the rows whose action is unknown
dateMissingOrOther(date, actionRaw) == date = <<>> \/ classifyCSV(actionRaw) = "OTHER"

\* if (!date) continue
dateMissing(date, actionRaw) == date = <<>>

\* getValue(values, symbolCol).toUpperCase() || "--"
symbolOrPlaceholder(symbol) ==
    IF toUpperCase(symbol) # <<>> THEN toUpperCase(symbol) ELSE <<"-","-">>

\* the body of the transactions loop for one line
transactionsRow(rawLine, col, now, parsed) ==
    LET line == trim(rawLine)
    IN  IF line = <<>> \/ startsWith(line, <<"\"","\"">>)
        THEN [kind |-> "skipped"]
        ELSE
        LET values == parseCSVLine(line)
            date == getValue(values, col.dateCol)
            actionRaw == toLowerCase(getValue(values, col.actionCol))
        IN  IF dateMissing(date, actionRaw)
            THEN [kind |-> "skipped"]
            ELSE [kind |-> "transaction",
                  transaction |->
                      [date |-> parseSchwabDate(date, now, dateParsed(date, parsed)),
                       action |-> classifyCSV(actionRaw),
                       symbol |-> symbolOrPlaceholder(getValue(values, col.symbolCol)),
                       description |-> getValue(values, col.descCol),
                       quantity |-> MathAbs(parseNumber(getValue(values, col.quantityCol))),
                       price |-> parseNumber(getValue(values, col.priceCol)),
                       fees |-> parseNumber(getValue(values, col.feesCol)),
                       amount |-> parseNumber(getValue(values, col.amountCol))]]

RECURSIVE transactionsLoop(_, _, _, _, _, _)
\* for (let i = headerIndex + 1; i < lines.length; i++), i counted from 0
transactionsLoop(lines, i, col, now, parsed, transactions) ==
    IF i >= Len(lines) THEN transactions
    ELSE LET row == transactionsRow(lines[i + 1], col, now, parsed)
         IN  transactionsLoop(lines, i + 1, col, now, parsed,
                              IF row.kind = "transaction"
                              THEN Append(transactions, row.transaction)
                              ELSE transactions)

parseSchwabTransactionsCSV(csvContent, now, parsed) ==
    LET lines == split(trim(csvContent), "\n")
    IN  IF Len(lines) < 2 THEN Returns(<<>>)
        ELSE LET headerIndex == transactionsHeaderIndex(lines)
                 headers == headerCells(lines[headerIndex + 1])
             IN  Returns(transactionsLoop(lines, headerIndex + 1, transactionsColumns(headers),
                                          now, parsed, <<>>))

\* variant of looksLikeJSON that goes by the content alone
looksLikeJSONByContent(content, filename) ==
    LET trimmed == trim(content)
    IN  startsWith(trimmed, <<"{">>) \/ startsWith(trimmed, <<"[">>)

\* the two tests of parseSchwabTransactions: the first character of the
\* trimmed content, then filename?.toLowerCase().endsWith(".json")
looksLikeJSON(content, filename) ==
    LET trimmed == trim(content)
    IN  \/ startsWith(trimmed, <<"{">>) \/ startsWith(trimmed, <<"[">>)
        \/ (filename.present /\ endsWith(toLowerCase(filename.text), <<".","j","s","o","n">>))

parseSchwabTransactions(content, filename, now, parsed) ==
    IF looksLikeJSON(content, filename)
    THEN parseSchwabTransactionsJSON(content, now, parsed)
    ELSE parseSchwabTransactionsCSV(content, now, parsed)

----------------------------------------------------------------------------
(* Transactions files and the four entry points of the parser module *)

TransactionsHeader == <<"D","a","t","e",",","A","c","t","i","o","n",",","S","y","m","b","o","l",",","D","e","s","c","r","i","p","t","i","o","n",",","Q","u","a","n","t","i","t","y",",","P","r","i","c","e",",","F","e","e","s"," ","&"," ","C","o","m","m",",","A","m","o","u","n","t">>

TransactionRow8(date, action, symbol, description, quantity, price, fees, amount) ==
    [kind |-> "data", date |-> date, action |-> action, symbol |-> symbol,
     description |-> description, quantity |-> quantity, price |-> price,
     fees |-> fees, amount |-> amount]

\* a line that is no transaction: blank, or the empty quoted marker
OtherTransactionLine(kind) ==
    [kind |-> kind, date |-> <<>>, action |-> <<>>, symbol |-> <<>>,
     description |-> <<>>, quantity |-> <<>>, price |-> <<>>,
     fees |-> <<>>, amount |-> <<>>]

transactionRowText(row) ==
    CASE row.kind = "blank" -> <<" ">>
      [] row.kind = "marker" -> <<"\"","\"",",","\"","T","r","a","n","s","a","c","t","i","o","n","s"," ","T","o","t","a","l","\"",",",",",",",",",",",",","\"","$","0",".","0","0","\"">>
      [] OTHER ->
            join([i \in 1..8 |-> csvField(<<row.date, row.action, row.symbol, row.description,
                                            row.quantity, row.price, row.fees, row.amount>>[i])], ",")

transactionsFileText(rows) ==
    TransactionsHeader \o <<"\n">>
    \o join([i \in 1..Len(rows) |-> transactionRowText(rows[i])], "\n") \o <<"\n">>

\* single rows: with and without a date, a known and an unknown action, with
\* and without a symbol, quantities and amounts of either sign
SingleRows ==
    {TransactionRow8(date, action, symbol, <<"A","P","P","L","E"," ","I","N","C">>, quantity, <<"1","5","0",".","0","0">>, <<"$","4",".","9","5">>, amount) :
        date \in {<<"0","1","/","2","6","/","2","0","2","6">>, <<"2","0","2","6","-","0","1","-","2","6">>, <<>>},
        action \in {<<"B","u","y">>, <<"W","i","r","e"," ","T","r","a","n","s","f","e","r">>},
        symbol \in {<<"a","a","p","l">>, <<>>},
        quantity \in {<<"-","1","0">>, <<"n","/","a">>},
        amount \in {<<"$","1",",","5","0","0",".","0","0">>, <<"(","1","5","0","0",".","0","0",")">>}}

\* the lines of the files of two rows
PairedRows ==
    {TransactionRow8(<<"1","/","5","/","2","0","2","6">>, <<"S","e","l","l">>, <<"M","S","F","T">>, <<"M","I","C","R","O","S","O","F","T"," ","C","O","R","P">>, <<"5">>, <<"4","0","0",".","0","0">>, <<>>, <<"2","0","0","0",".","0","0">>),
     TransactionRow8(<<>>, <<"B","u","y">>, <<"N","V","D","A">>, <<"N","V","I","D","I","A"," ","C","O","R","P">>, <<"2">>, <<"9","0",".","0","0">>, <<>>, <<"-","1","8","0",".","0","0">>),
     TransactionRow8(<<"J","a","n"," ","2","6"," ","2","0","2","6">>, <<"J","o","u","r","n","a","l">>, <<>>, <<"n","o"," ","n","u","m","b","e","r","s">>, <<"-","-">>, <<"n","/","a">>, <<>>, <<"p","e","n","d","i","n","g">>),
     OtherTransactionLine("blank"), OtherTransactionLine("marker")}

\* the rows a JSON document was written from
ExampleRows ==
    <<TransactionRow8(<<>>, <<"S","e","l","l">>, <<"a","a","p","l">>, <<>>, <<"-","1","0">>, <<"1","5","0",".","0","0">>, <<>>, <<"1","5","0","0",".","0","0">>)>>

TwoRecordsRows ==
    <<TransactionRow8(<<"0","1","/","2","6","/","2","0","2","6">>, <<"B","u","y">>, <<"M","S","F","T">>, <<"M","I","C","R","O","S","O","F","T"," ","C","O","R","P">>, <<"5">>, <<"4","0","0",".","0","0">>, <<"$","4",".","9","5">>, <<"-","$","2",",","0","0","4",".","9","5">>),
      TransactionRow8(<<"2","0","2","6","-","0","1","-","2","7">>, <<"R","e","i","n","v","e","s","t"," ","S","h","a","r","e","s">>, <<>>, <<>>, <<"0",".","5">>, <<>>, <<>>, <<"(","2","0","0",".","0","0",")">>)>>

\* a file at hand: the format it was written in, its rows and its text
FileOf(format, rows, text) == [format |-> format, rows |-> rows, text |-> text]

TransactionsInputs ==
    {FileOf("csv", <<r>>, transactionsFileText(<<r>>)) : r \in SingleRows}
    \cup {FileOf("csv", <<r1, r2>>, transactionsFileText(<<r1, r2>>)) : r1 \in PairedRows, r2 \in PairedRows}
    \cup {FileOf("json", ExampleRows, ExampleBlob), FileOf("json", TwoRecordsRows, TwoRecordsBlob)}
    \cup {FileOf("other", <<>>, OddDocuments[i][1]) : i \in 1..Len(OddDocuments)}
    \cup {FileOf("other", <<>>, BrokenBlob), FileOf("other", <<>>, <<>>),
          FileOf("other", <<>>, ShortHeader \o <<"\n","A","A","P","L",",","A","p","p","l","e"," ","I","n","c",".",",","1","0",",","1","5","0",".","0","0",",","1","5","0","0",".","0","0",",","1","0","0","0",".","0","0">>)}

FileNames == {Absent, Field(<<"e","x","p","o","r","t",".","c","s","v">>), Field(<<"E","x","p","o","r","t",".","J","S","O","N">>)}

InitEntry ==
    /\ txInput \in TransactionsInputs
    /\ txContent = txInput.text
    /\ txEntry \in {"positions", "csv", "json", "auto"}
    /\ txName \in (IF txEntry = "auto" THEN FileNames ELSE {Absent})
    /\ txOut = NotCalled
    /\ clock \in 1..MaxClock
    /\ cHoldings = <<>> /\ cTransactions = <<>>
    /\ res1 = NotCalled /\ res2 = NotCalled
    /\ posInput = NoInput /\ posContent = <<>>
    /\ posOut1 = NotCalled /\ posOut2 = NotCalled
    /\ lBody = NoBody /\ lOut = NotCalled

\* what a call left: it threw or returned a value, at the clock reading now,
\* in a run where new Date of unrecognised text gives parsed
Outcome(outcome, now, parsed) ==
    [called |-> TRUE, threw |-> outcome.threw, value |-> outcome.value,
     now |-> now, parsed |-> parsed]

\* what new Date(text) may give in one run, for text an engine may accept
Engines == {InvalidDate} \cup ParsedInstants

CallPositions ==
    /\ txEntry = "positions" /\ txOut = NotCalled
    /\ txOut' = Outcome(Returns(parseSchwabPositionsCSV(txContent)), clock, InvalidDate)
    /\ UNCHANGED <<txInput, txEntry, txContent, txName, posInput, posContent, posOut1, posOut2,
                   lBody, lOut, storeVars, calcVars, parseVars, laterVars>>

CallTransactionsCSV ==
    /\ txEntry = "csv" /\ txOut = NotCalled
    /\ \E parsed \in Engines :
           txOut' = Outcome(parseSchwabTransactionsCSV(txContent, clock, parsed), clock, parsed)
    /\ UNCHANGED <<txInput, txEntry, txContent, txName, posInput, posContent, posOut1, posOut2,
                   lBody, lOut, storeVars, calcVars, parseVars, laterVars>>

CallTransactionsJSON ==
    /\ txEntry = "json" /\ txOut = NotCalled
    /\ \E parsed \in Engines :
           txOut' = Outcome(parseSchwabTransactionsJSON(txContent, clock, parsed), clock, parsed)
    /\ UNCHANGED <<txInput, txEntry, txContent, txName, posInput, posContent, posOut1, posOut2,
                   lBody, lOut, storeVars, calcVars, parseVars, laterVars>>

\* parseSchwabTransactions(content, filename), filename optional
CallTransactions ==
    /\ txEntry = "auto" /\ txOut = NotCalled
    /\ \E parsed \in Engines :
           txOut' = Outcome(parseSchwabTransactions(txContent, txName, clock, parsed), clock, parsed)
    /\ UNCHANGED <<txInput, txEntry, txContent, txName, posInput, posContent, posOut1, posOut2,
                   lBody, lOut, storeVars, calcVars, parseVars, laterVars>>

NextEntry ==
    \/ CallPositions
    \/ CallTransactionsCSV
    \/ CallTransactionsJSON
    \/ CallTransactions

InitEntryPoints == InitStore /\ IdleParse /\ InitEntry /\ IdleLater

SpecEntry == InitEntryPoints /\ [][NextEntry]_vars

----------------------------------------------------------------------------
(* loadPortfolioData, after a save that ran alone *)

\* t.date.toISOString() of a stored date
dateToISOString(days) ==
    CASE days = 20479 -> "2026-01-26T00:00:00.000Z"
      [] days = 20487 -> "2026-02-03T00:00:00.000Z"
      [] OTHER -> "1970-01-01T00:00:00.000Z"

\* export const emptyPortfolio, its lastUpdated stamped when the module loads
emptyPortfolio ==
    [holdings |-> <<>>, transactions |-> <<>>, totalValue |-> 0, totalCost |-> 0,
     totalGainLoss |-> 0, totalGainLossPercent |-> 0, cashBalance |-> 0,
     lastUpdated |-> toISOString(1)]

\* orderBy: { date: 'desc' }: the orders the database may return the rows in
\* (rows of one date come in any order)
DescendingOrders(rows) ==
    {p \in [1..Len(rows) -> 1..Len(rows)] :
        /\ \A i, j \in 1..Len(rows) : i # j => p[i] # p[j]
        /\ \A i \in 1..(Len(rows) - 1) : rows[p[i]].date >= rows[p[i + 1]].date}

\* the holdings.map of loadPortfolioData
loadedHolding(h) ==
    [symbol |-> h.symbol, name |-> h.name, quantity |-> h.quantity,
     costPerShare |-> h.costPerShare, currentPrice |-> h.currentPrice,
     marketValue |-> h.marketValue, gainLoss |-> h.gainLoss,
     gainLossPercent |-> h.gainLossPercent]

\* the transactions.map of loadPortfolioData
loadedTransaction(t) ==
    [date |-> dateToISOString(t.date), action |-> t.action, symbol |-> t.symbol,
     description |-> t.description, quantity |-> t.quantity, price |-> t.price,
     fees |-> t.fees, amount |-> t.amount]

\* loadPortfolioData on the committed rows, the transactions in order p
loadPortfolioData(store, p) ==
    IF ~store.portfolio.exists THEN emptyPortfolio
    ELSE [holdings |-> [i \in 1..Len(store.holdings) |-> loadedHolding(store.holdings[i])],
          transactions |-> [i \in 1..Len(store.transactions) |->
                               loadedTransaction(store.transactions[p[i]])],
          totalValue |-> store.portfolio.totalValue,
          totalCost |-> store.portfolio.totalCost,
          totalGainLoss |-> store.portfolio.totalGainLoss,
          totalGainLossPercent |-> store.portfolio.totalGainLossPercent,
          cashBalance |-> store.portfolio.cashBalance,
          lastUpdated |-> store.portfolio.lastUpdated]

InitLoad ==
    /\ lBody \in Bodies \cup {NoBody}
    /\ lOut = NotCalled
    /\ posInput = NoInput /\ posContent = <<>>
    /\ posOut1 = NotCalled /\ posOut2 = NotCalled
    /\ txInput = NoFile
    /\ txEntry = "none" /\ txContent = <<>> /\ txName = Absent /\ txOut = NotCalled

\* savePortfolioData(userId, lBody) from its first statement to its commit,
\* with no other request of the user under way
SaveAlone ==
    /\ lBody # NoBody
    /\ db = EmptyStore
    /\ lOut = NotCalled
    /\ db' = SaveResult(db, lBody)
    /\ cur' = db'
    /\ serial' = db'
    /\ UNCHANGED <<pc, data, cnt, calcVars, parseVars, posInput, posContent, posOut1, posOut2,
                   txInput, txEntry, txContent, txName, txOut, lBody, lOut, laterVars>>

\* GET /api/portfolio: loadPortfolioData(userId)
Load ==
    /\ lOut = NotCalled
    /\ \E p \in DescendingOrders(db.transactions) :
           lOut' = Returned(loadPortfolioData(db, p))
    /\ UNCHANGED <<storeVars, calcVars, parseVars, posInput, posContent, posOut1, posOut2,
                   txInput, txEntry, txContent, txName, txOut, lBody, laterVars>>

NextLoad ==
    \/ SaveAlone
    \/ Load

InitLoader == InitStore /\ IdleCalc /\ IdleParse /\ InitLoad /\ IdleLater

SpecLoad == InitLoader /\ [][NextLoad]_vars

----------------------------------------------------------------------------
(* The same snapshot saved twice, one save after the other *)

InitResave ==
    /\ lBody \in Bodies
    /\ lOut = NotCalled
    /\ sFirst = NotCalled /\ sSecond = NotCalled
    /\ posInput = NoInput /\ posContent = <<>>
    /\ posOut1 = NotCalled /\ posOut2 = NotCalled
    /\ txInput = NoFile
    /\ txEntry = "none" /\ txContent = <<>> /\ txName = Absent /\ txOut = NotCalled

\* an earlier upload of the user: savePortfolioData(userId, b), run alone
SaveEarlier ==
    /\ db = EmptyStore
    /\ sFirst = NotCalled
    /\ \E b \in Bodies : db' = SaveResult(db, b)
    /\ cur' = db'
    /\ serial' = db'
    /\ UNCHANGED <<pc, data, cnt, calcVars, parseVars, fileVars, resaveVars, quoteVars, pageVars,
                   authVars, textVars>>

\* handleSave posts the snapshot: savePortfolioData(userId, lBody), run alone
SaveOnce ==
    /\ sFirst = NotCalled
    /\ db' = SaveResult(db, lBody)
    /\ cur' = db'
    /\ serial' = db'
    /\ sFirst' = Returned(db')
    /\ UNCHANGED <<pc, data, cnt, calcVars, parseVars, fileVars, sSecond, quoteVars, pageVars,
                   authVars, textVars>>

\* the same snapshot posted again, after the first save has committed
SaveTwice ==
    /\ sFirst # NotCalled
    /\ sSecond = NotCalled
    /\ db' = SaveResult(db, lBody)
    /\ cur' = db'
    /\ serial' = db'
    /\ sSecond' = Returned(db')
    /\ UNCHANGED <<pc, data, cnt, calcVars, parseVars, fileVars, sFirst, quoteVars, pageVars,
                   authVars, textVars>>

NextResave ==
    \/ SaveEarlier
    \/ SaveOnce
    \/ SaveTwice

InitSaver ==
    InitStore /\ IdleCalc /\ IdleParse /\ InitResave /\ IdleQuote /\ IdlePage /\ IdleAuth /\ IdleText

SpecResave == InitSaver /\ [][NextResave]_vars

----------------------------------------------------------------------------
(* The quote clients: getStockQuote of src/lib/finnhub.ts and of the Yahoo  *)
(* client, with the module-level priceCache                                  *)

\* const CACHE_TTL = 5 * 60 * 1000, in milliseconds
CACHE_TTL == 5 * 60 * 1000

Symbols == {"AAPL", "MSFT"}
Callers == {1, 2}

\* whole numbers as JavaScript numbers
Whole(i) == Num(Number(i, 1))

\* v?.key
optional(v, key) ==
    IF v.t \in {"undefined", "null"} THEN Undefined ELSE property(v, key).value

\* v?.[0]
optionalFirst(v) ==
    IF v.t = "array" /\ Len(v.items) > 0 THEN v.items[1] ELSE Undefined

\* a ?? b
nullish(a, b) == IF a.t \in {"undefined", "null"} THEN b ELSE a

\* v === 0
isZero(v) == v.t = "number" /\ v.x = Zero

\* a StockQuote
StockQuote(symbol, currentPrice, change, changePercent, high, low, open, previousClose, timestamp) ==
    [symbol |-> symbol, currentPrice |-> currentPrice, change |-> change,
     changePercent |-> changePercent, high |-> high, low |-> low, open |-> open,
     previousClose |-> previousClose, timestamp |-> timestamp]

\* data.c === 0 && data.pc === 0
finnhubNoData(response) ==
    isZero(property(response, "c").value) /\ isZero(property(response, "pc").value)

\* data.t * 1000
timesThousand(v) ==
    IF v.t = "number" /\ v.x.k = "finite" THEN Num(Times(v.x, Number(1000, 1))) ELSE Num(NaN)

\* finnhub.ts, from the parsed body to the quote: what is returned, or a throw
\* (reading a property of a body that is null)
finnhubQuote(symbol, response) ==
    IF property(response, "c").threw THEN Throws
    ELSE IF finnhubNoData(response) THEN Returns(Null)
    ELSE Returns(StockQuote(symbol, property(response, "c").value, property(response, "d").value,
                            property(response, "dp").value, property(response, "h").value,
                            property(response, "l").value, property(response, "o").value,
                            property(response, "pc").value,
                            timesThousand(property(response, "t").value)))

\* a - b and a > 0 ? (b / a) * 100 : 0 on the numbers the provider sends
minusValue(a, b) ==
    IF a.t = "number" /\ b.t = "number" /\ a.x.k = "finite" /\ b.x.k = "finite"
    THEN Num(Minus(a.x, b.x)) ELSE Num(NaN)

percentOf(change, previousClose) ==
    IF previousClose.t = "number" /\ Positive(previousClose.x) /\ previousClose.x.k = "finite"
       /\ change.x.k = "finite"
    THEN Num(Times(Divide(change.x, previousClose.x), Hundred))
    ELSE Num(Zero)

\* the Yahoo client, from the parsed body to the quote
yahooQuote(symbol, response, now) ==
    LET result == optionalFirst(optional(optional(response, "chart"), "result"))
        meta == optional(result, "meta")
    IN  IF ~truthy(meta) \/ ~truthy(optional(meta, "regularMarketPrice"))
        THEN Returns(Null)
        ELSE
            LET currentPrice == optional(meta, "regularMarketPrice")
                previousClose == nullish(optional(meta, "chartPreviousClose"),
                                         nullish(optional(meta, "previousClose"), currentPrice))
                change == minusValue(currentPrice, previousClose)
                changePercent == percentOf(change, previousClose)
                quoteData == optionalFirst(optional(optional(result, "indicators"), "quote"))
                high == nullish(optionalFirst(optional(quoteData, "high")), currentPrice)
                low == nullish(optionalFirst(optional(quoteData, "low")), currentPrice)
                open == nullish(optionalFirst(optional(quoteData, "open")), previousClose)
            IN  Returns(StockQuote(symbol, currentPrice, change, changePercent, high, low, open,
                                   previousClose, Whole(now)))

\* priceCache.get(symbol)
cacheGet(cache, symbol) == IF symbol \in DOMAIN cache THEN cache[symbol] ELSE Undefined

\* variant of cacheFresh that serves an entry up to and including the TTL
cacheFreshInclusive(cached, now) ==
    cached # Undefined /\ now - cached.timestamp <= CACHE_TTL

\* cached && Date.now() - cached.timestamp < CACHE_TTL
cacheFresh(cached, now) ==
    cached # Undefined /\ now - cached.timestamp < CACHE_TTL

\* priceCache.set(symbol, { data: quote, timestamp: Date.now() })
cacheSet(cache, symbol, quote, now) ==
    [s \in DOMAIN cache \cup {symbol} |->
        IF s = symbol THEN [data |-> quote, timestamp |-> now] ELSE cache[s]]

\* await fetch(...) settles: rejected, a status that is not OK, or OK
FetchOutcomes == {"rejects", "status", "ok"}

\* what marks a body that is no JSON text: response.json() rejects on it
NotJSON == [value |-> Undefined, price |-> Undefined, json |-> FALSE]

\* a body the provider sends, with the price it carries for the symbol
\* (Null when it carries none)
Body(value, price) == [value |-> value, price |-> price, json |-> TRUE]

FinnhubKeys == {"c", "d", "dp", "h", "l", "o", "pc", "t"}

FinnhubData(price, close) ==
    Obj(FinnhubKeys,
        [k \in FinnhubKeys |->
            CASE k = "c" -> Whole(price)
              [] k = "d" -> Whole(price - close)
              [] k = "dp" -> Whole(1)
              [] k = "h" -> Whole(price + 1)
              [] k = "l" -> Whole(close - 1)
              [] k = "o" -> Whole(close)
              [] k = "pc" -> Whole(close)
              [] OTHER -> Whole(1700)])

\* what Finnhub answers for a symbol it does not know
FinnhubUnknown ==
    Obj(FinnhubKeys, [k \in FinnhubKeys |-> IF k \in {"d", "dp"} THEN Null ELSE Whole(0)])

FinnhubBodies ==
    {Body(FinnhubData(150, 148), Whole(150)), Body(FinnhubData(152, 150), Whole(152)),
     Body(FinnhubUnknown, Null), Body(Null, Null), NotJSON}

OneOf(key, value) == Obj({key}, [k \in {key} |-> value])

YahooChart(result) == OneOf("chart", OneOf("result", result))

YahooMeta(price, close) ==
    Obj({"regularMarketPrice", "chartPreviousClose"},
        [k \in {"regularMarketPrice", "chartPreviousClose"} |->
            IF k = "regularMarketPrice" THEN Whole(price) ELSE Whole(close)])

YahooIndicators ==
    OneOf("quote", Arr(<<Obj({"high", "low", "open"},
                             [k \in {"high", "low", "open"} |->
                                 CASE k = "high" -> Arr(<<Whole(151)>>)
                                   [] k = "low" -> Arr(<<Whole(147)>>)
                                   [] OTHER -> Arr(<<Whole(149)>>)])>>))

YahooBodies ==
    {Body(YahooChart(Arr(<<Obj({"meta", "indicators"},
                               [k \in {"meta", "indicators"} |->
                                   IF k = "meta" THEN YahooMeta(150, 148) ELSE YahooIndicators])>>)),
          Whole(150)),
     Body(YahooChart(Arr(<<OneOf("meta", OneOf("regularMarketPrice", Whole(152)))>>)), Whole(152)),
     Body(YahooChart(Null), Null),
     Body(YahooChart(Arr(<<OneOf("meta", YahooMeta(0, 0))>>)), Null),
     Body(Null, Null), NotJSON}

BodiesOf(provider) == IF provider = "finnhub" THEN FinnhubBodies ELSE YahooBodies

\* await response.json() and the statements up to the cache update
quoteOutcome(provider, symbol, body, now) ==
    IF ~body.json THEN Throws
    ELSE IF provider = "finnhub" THEN finnhubQuote(symbol, body.value)
    ELSE yahooQuote(symbol, body.value, now)

\* variant of cacheOnOutcome that stores whatever the statements produced
cacheOnOutcomeAlways(cache, symbol, outcome, now) ==
    IF outcome.threw THEN cache ELSE cacheSet(cache, symbol, outcome.value, now)

\* the cache after the try block: only the path that built a quote reaches
\* priceCache.set
cacheOnOutcome(cache, symbol, outcome, now) ==
    IF outcome.threw \/ outcome.value = Null THEN cache
    ELSE cacheSet(cache, symbol, outcome.value, now)

\* catch (error) { console.error(...); return null; }
catchNull(outcome) == IF outcome.threw THEN Returns(Null) ELSE outcome

\* no call of the caller yet
NoCall ==
    [symbol |-> "", at |-> 0, before |-> Undefined, contacted |-> FALSE,
     failure |-> "none", price |-> Undefined, ret |-> Undefined, settled |-> FALSE]

\* the clock runs up to MaxTTLs times the TTL
MaxTTLs == 1

\* the instants at which something happens, in milliseconds since the start:
\* one millisecond before, at and after each multiple of the TTL
QuoteInstants ==
    {k * CACHE_TTL + e : k \in 0..MaxTTLs, e \in {-1, 0, 1}} \cap (0..(MaxTTLs * CACHE_TTL))

InitQuote ==
    /\ qProvider \in {"finnhub", "yahoo"}
    /\ qKey \in IF qProvider = "finnhub" THEN BOOLEAN ELSE {TRUE}
    /\ priceCache = <<>>
    /\ qClock = 0
    /\ qPc = [c \in Callers |-> "idle"]
    /\ qCall = [c \in Callers |-> NoCall]

\* getStockQuote(symbol) up to its first await, or to its return
GetStockQuote(c) ==
    /\ qPc[c] = "idle"
    /\ \E symbol \in Symbols :
        LET cached == cacheGet(priceCache, symbol)
            started == [NoCall EXCEPT !.symbol = symbol, !.at = qClock, !.before = cached]
        IN  IF qProvider = "finnhub" /\ ~qKey
            THEN /\ qCall' = [qCall EXCEPT ![c] =
                        [started EXCEPT !.failure = "noKey", !.ret = Null, !.settled = TRUE]]
                 /\ UNCHANGED qPc
            ELSE IF cacheFresh(cached, qClock)
            THEN /\ qCall' = [qCall EXCEPT ![c] =
                        [started EXCEPT !.ret = cached.data, !.settled = TRUE]]
                 /\ UNCHANGED qPc
            ELSE /\ qCall' = [qCall EXCEPT ![c] = [started EXCEPT !.contacted = TRUE]]
                 /\ qPc' = [qPc EXCEPT ![c] = "fetch"]
    /\ UNCHANGED <<qProvider, qKey, priceCache, qClock>>
    /\ UNCHANGED <<storeVars, calcVars, parseVars, fileVars, resaveVars, pageVars, authVars, textVars>>

\* await fetch(...) settles; a rejection goes to the catch block, a status
\* that is not OK returns null
FetchSettles(c) ==
    /\ qPc[c] = "fetch"
    /\ \E o \in FetchOutcomes :
        IF o = "ok"
        THEN /\ qPc' = [qPc EXCEPT ![c] = "json"]
             /\ UNCHANGED qCall
        ELSE /\ qPc' = [qPc EXCEPT ![c] = "idle"]
             /\ qCall' = [qCall EXCEPT ![c] =
                    [@ EXCEPT !.failure = o,
                              !.ret = catchNull(IF o = "rejects" THEN Throws ELSE Returns(Null)).value,
                              !.settled = TRUE]]
    /\ UNCHANGED <<qProvider, qKey, priceCache, qClock>>
    /\ UNCHANGED <<storeVars, calcVars, parseVars, fileVars, resaveVars, pageVars, authVars, textVars>>

\* await response.json() settles and the call runs to its return
JsonSettles(c) ==
    /\ qPc[c] = "json"
    /\ \E body \in BodiesOf(qProvider) :
        LET symbol == qCall[c].symbol
            outcome == quoteOutcome(qProvider, symbol, body, qClock)
        IN  /\ priceCache' = cacheOnOutcome(priceCache, symbol, outcome, qClock)
            /\ qCall' = [qCall EXCEPT ![c] =
                    [@ EXCEPT !.failure = IF ~body.json THEN "notJSON"
                                          ELSE IF body.price = Null THEN "noData" ELSE "none",
                              !.price = body.price,
                              !.ret = catchNull(outcome).value,
                              !.settled = TRUE]]
    /\ qPc' = [qPc EXCEPT ![c] = "idle"]
    /\ UNCHANGED <<qProvider, qKey, qClock>>
    /\ UNCHANGED <<storeVars, calcVars, parseVars, fileVars, resaveVars, pageVars, authVars, textVars>>

\* time passes
Elapse ==
    /\ \E later \in QuoteInstants :
        /\ later > qClock
        /\ qClock' = later
    /\ UNCHANGED <<qProvider, qKey, priceCache, qPc, qCall>>
    /\ UNCHANGED <<storeVars, calcVars, parseVars, fileVars, resaveVars, pageVars, authVars, textVars>>

NextQuote ==
    \/ \E c \in Callers : GetStockQuote(c)
    \/ \E c \in Callers : FetchSettles(c)
    \/ \E c \in Callers : JsonSettles(c)
    \/ Elapse

InitQuoteClient ==
    InitStore /\ IdleCalc /\ IdleParse /\ IdleFile /\ InitQuote /\ IdleResave /\ IdlePage /\ IdleAuth
    /\ IdleText

SpecQuote == InitQuoteClient /\ [][NextQuote]_vars

----------------------------------------------------------------------------
(* The text helpers of the parser module, one call at a time *)

\* variant of csvStep that takes a quote for an ordinary character
csvStepLiteral(st, char) ==
    IF char = "," /\ ~st.inQuotes
    THEN [st EXCEPT !.result = Append(@, trim(st.current)), !.current = <<>>]
    ELSE [st EXCEPT !.current = Append(@, char)]

\* the body of the for loop of parseCSVLine for one character
csvStep(st, char) ==
    IF char = "\"" THEN [st EXCEPT !.inQuotes = ~@]
    ELSE IF char = "," /\ ~st.inQuotes
    THEN [st EXCEPT !.result = Append(@, trim(st.current)), !.current = <<>>]
    ELSE [st EXCEPT !.current = Append(@, char)]

RECURSIVE csvLoop(_, _, _)
\* for (let i = 0; i < line.length; i++), i counted from 1
csvLoop(line, i, st) ==
    IF i > Len(line) THEN st ELSE csvLoop(line, i + 1, csvStep(st, line[i]))

\* parseCSVLine statement by statement; parseCSVLine above is what the loop
\* comes to, written without recursion for the long lines of whole files
parseCSVLineLoop(line) ==
    LET st == csvLoop(line, 1, [result |-> <<>>, current |-> <<>>, inQuotes |-> FALSE])
    IN  Append(st.result, trim(st.current))

\* header cells as the parsers pass them to findColumn, and candidate names
HeaderCellTexts == {<<"s","y","m","b","o","l">>, <<"p","r","i","c","e">>, <<"m","a","r","k","e","t"," ","v","a","l","u","e">>, <<"v","a","l","u","e">>}
CandidateNames == {<<"m","a","r","k","e","t"," ","v","a","l","u","e">>, <<"v","a","l","u","e">>, <<"p","r","i","c","e">>, <<"c","o","s","t">>}

\* fields of a row as parseCSVLine returns them
FieldTexts == {<<"\"","A","A","P","L","\"">>, <<" ","1","0">>, <<>>}

\* the lines of a file, each with what it is: the header of a positions file,
\* the header of a transactions file, a row of either (with the symbol of the
\* record the row stands for), or a line of metadata
FileLine(text, is, symbol) == [text |-> text, is |-> is, symbol |-> symbol]

PositionsLines ==
    {FileLine(<<"S","y","m","b","o","l",",","Q","u","a","n","t","i","t","y">>, "header", <<>>),
     FileLine(<<"S","Y","M","B","O","L",",","S","h","a","r","e","s",",","P","r","i","c","e">>, "header", <<>>),
     FileLine(<<"P","o","s","i","t","i","o","n","s"," ","f","o","r"," ","a","c","c","o","u","n","t"," ","X","X","X","X","-","1","2","3","4">>, "metadata", <<>>),
     FileLine(<<"S","y","m","b","o","l",",","P","r","i","c","e">>, "metadata", <<>>),
     FileLine(<<"A","A","P","L",",","1","0">>, "row", <<"A","A","P","L">>),
     FileLine(<<"M","S","F","T",",","5">>, "row", <<"M","S","F","T">>)}

TransactionsLines ==
    {FileLine(<<"D","a","t","e",",","S","y","m","b","o","l",",","A","c","t","i","o","n",",","A","m","o","u","n","t">>, "header", <<>>),
     FileLine(<<"T","r","a","d","e"," ","D","A","T","E",",","S","y","m","b","o","l",",","A","C","T","I","O","N">>, "header", <<>>),
     FileLine(<<"T","r","a","n","s","a","c","t","i","o","n","s"," ","f","o","r"," ","a","c","c","o","u","n","t"," ","X","X","X","X","-","1","2","3","4">>, "metadata", <<>>),
     FileLine(<<"D","a","t","e",",","S","y","m","b","o","l">>, "metadata", <<>>),
     FileLine(<<"0","1","/","2","6","/","2","0","2","6",",","A","A","P","L",",","B","u","y">>, "row", <<"A","A","P","L">>),
     FileLine(<<"0","2","/","0","3","/","2","0","2","6",",","M","S","F","T",",","S","e","l","l">>, "row", <<"M","S","F","T">>)}

\* longest file of the helper calls, in lines
MaxLines == 3
\* longest line given to the tokenizer, and longest text given to parseNumber
MaxChars == 4

TokenizerAlphabet == {",", "\"", " ", "a"}
NumberAlphabet == {"$", ",", "1", ".", "(", ")", "-"}

\* texts with the number each stands for
NumberText(text, n, d) == [text |-> text, n |-> n, d |-> d]

NumberExamples ==
    {NumberText(<<"$","1",",","2","3","4",".","5","6">>, 123456, 100), NumberText(<<"(","5","0","0",")">>, -500, 1),
     NumberText(<<>>, 0, 1), NumberText(<<"a","b","c">>, 0, 1),
     NumberText(<<" "," ","4","2"," ">>, 42, 1), NumberText(<<"-","3",".","5">>, -35, 10),
     NumberText(<<"1","2",".","5","%">>, 125, 10), NumberText(<<"(","1",",","2","3","4",".","5","6",")">>, -123456, 100),
     NumberText(<<"(","a",")">>, 0, 1), NumberText(<<"1"," ","0","0","0">>, 1000, 1),
     NumberText(<<"+","7">>, 7, 1), NumberText(<<"N","/","A">>, 0, 1)}

TextInputs ==
    {[kind |-> "findColumn", headers |-> h, names |-> n] :
        h \in ListsOf(HeaderCellTexts, MaxLines), n \in ListsOf(CandidateNames, 2)}
    \cup {[kind |-> "getValue", values |-> v, index |-> i] :
             v \in ListsOf(FieldTexts, 2), i \in -1..3}
    \cup {[kind |-> "positions", lines |-> l] : l \in ListsOf(PositionsLines, MaxLines)}
    \cup {[kind |-> "transactions", lines |-> l] : l \in ListsOf(TransactionsLines, MaxLines)}
    \cup {[kind |-> "parseCSVLine", line |-> l] : l \in ListsOf(TokenizerAlphabet, MaxChars)}
    \cup {[kind |-> "parseNumber", value |-> e.text, n |-> e.n, d |-> e.d] : e \in NumberExamples}
    \cup {[kind |-> "parseNumber", value |-> v, n |-> 0, d |-> 0] :
             v \in ListsOf(NumberAlphabet, MaxChars) \ {<<>>}}

InitText ==
    /\ tInput \in TextInputs
    /\ tOut = NotCalled

\* the text of the lines
textsOf(lines) == [i \in 1..Len(lines) |-> lines[i].text]

CallFindColumn ==
    /\ tInput.kind = "findColumn" /\ tOut = NotCalled
    /\ tOut' = Returned(findColumn(tInput.headers, tInput.names))
    /\ UNCHANGED <<tInput, storeVars, calcVars, parseVars, fileVars, quoteVars, resaveVars, pageVars, authVars>>

CallGetValue ==
    /\ tInput.kind = "getValue" /\ tOut = NotCalled
    /\ tOut' = Returned(getValue(tInput.values, tInput.index))
    /\ UNCHANGED <<tInput, storeVars, calcVars, parseVars, fileVars, quoteVars, resaveVars, pageVars, authVars>>

\* the header search of parseSchwabPositionsCSV and the parse of the file
CallPositionsHeader ==
    /\ tInput.kind = "positions" /\ tOut = NotCalled
    /\ tOut' = Returned([headerIndex |-> positionsHeaderIndex(textsOf(tInput.lines)),
                         records |-> parseSchwabPositionsCSV(join(textsOf(tInput.lines), "\n"))])
    /\ UNCHANGED <<tInput, storeVars, calcVars, parseVars, fileVars, quoteVars, resaveVars, pageVars, authVars>>

\* the header search of parseSchwabTransactionsCSV and the parse of the file
CallTransactionsHeader ==
    /\ tInput.kind = "transactions" /\ tOut = NotCalled
    /\ tOut' = Returned([headerIndex |-> transactionsHeaderIndex(textsOf(tInput.lines)),
                         records |-> parseSchwabTransactionsCSV(join(textsOf(tInput.lines), "\n"),
                                                                clock, InvalidDate).value])
    /\ UNCHANGED <<tInput, storeVars, calcVars, parseVars, fileVars, quoteVars, resaveVars, pageVars, authVars>>

CallParseCSVLine ==
    /\ tInput.kind = "parseCSVLine" /\ tOut = NotCalled
    /\ tOut' = Returned(parseCSVLineLoop(tInput.line))
    /\ UNCHANGED <<tInput, storeVars, calcVars, parseVars, fileVars, quoteVars, resaveVars, pageVars, authVars>>

CallParseNumber ==
    /\ tInput.kind = "parseNumber" /\ tOut = NotCalled
    /\ tOut' = Returned(parseNumber(tInput.value))
    /\ UNCHANGED <<tInput, storeVars, calcVars, parseVars, fileVars, quoteVars, resaveVars, pageVars, authVars>>

NextText ==
    \/ CallFindColumn
    \/ CallGetValue
    \/ CallPositionsHeader
    \/ CallTransactionsHeader
    \/ CallParseCSVLine
    \/ CallParseNumber

InitTextHelpers ==
    InitStore /\ IdleCalc /\ IdleParse /\ IdleFile /\ IdleQuote /\ IdleResave /\ IdlePage /\ IdleAuth
    /\ InitText

SpecText == InitTextHelpers /\ [][NextText]_vars

----------------------------------------------------------------------------
(* The upload page: the handlers of its two file inputs and processFiles *)

\* a File, by its name
PositionsFiles == {[name |-> <<"p","o","s","i","t","i","o","n","s","-","1",".","c","s","v">>], [name |-> <<"p","o","s","i","t","i","o","n","s","-","2",".","c","s","v">>]}
TransactionsFiles == {[name |-> <<"t","r","a","n","s","a","c","t","i","o","n","s",".","c","s","v">>]}
OtherFiles == {[name |-> <<"n","o","t","e","s",".","t","x","t">>]}

\* processFiles calls started on the page, at most
MaxCalls == 3

\* what processFiles computes from the texts of the two files:
\* calculatePortfolioTotals(parseSchwabPositionsCSV(...), parseSchwabTransactionsCSV(...) or []),
\* kept here as the files it was computed from
processed(positions, transactions) == [positions |-> positions, transactions |-> transactions]

\* a processFiles call waiting for positions.text()
started(positions, transactions) ==
    [positions |-> positions, transactions |-> transactions, at |-> "positions.text"]

\* processFiles(positions, transactions) up to its first await: the new
\* parsedData and the new list of calls
processFiles(positions, transactions) ==
    IF positions = Null
    THEN [parsedData |-> Null, calls |-> calls]
    ELSE [parsedData |-> parsedData, calls |-> Append(calls, started(positions, transactions))]

InitPage ==
    /\ positionsFile = Null /\ transactionsFile = Null /\ parsedData = Null
    /\ pageError = "" /\ calls = <<>>

\* handleFileSelect and handleDrop with a file for the positions input
ChoosePositions ==
    /\ Len(calls) < MaxCalls
    /\ \E file \in PositionsFiles \cup OtherFiles :
        IF ~endsWith(file.name, <<".","c","s","v">>)
        THEN /\ pageError' = "Please upload a CSV file"
             /\ UNCHANGED <<positionsFile, transactionsFile, parsedData, calls>>
        ELSE /\ pageError' = ""
             /\ positionsFile' = file
             /\ parsedData' = processFiles(file, transactionsFile).parsedData
             /\ calls' = processFiles(file, transactionsFile).calls
             /\ UNCHANGED transactionsFile
    /\ UNCHANGED <<storeVars, calcVars, parseVars, fileVars, quoteVars, resaveVars, authVars, textVars>>

\* handleFileSelect and handleDrop with a file for the transactions input
ChooseTransactions ==
    /\ Len(calls) < MaxCalls
    /\ \E file \in TransactionsFiles \cup OtherFiles :
        IF ~endsWith(file.name, <<".","c","s","v">>)
        THEN /\ pageError' = "Please upload a CSV file"
             /\ UNCHANGED <<positionsFile, transactionsFile, parsedData, calls>>
        ELSE /\ pageError' = ""
             /\ transactionsFile' = file
             /\ parsedData' = processFiles(positionsFile, file).parsedData
             /\ calls' = processFiles(positionsFile, file).calls
             /\ UNCHANGED positionsFile
    /\ UNCHANGED <<storeVars, calcVars, parseVars, fileVars, quoteVars, resaveVars, authVars, textVars>>

\* removeFile("positions")
RemovePositions ==
    /\ positionsFile # Null
    /\ positionsFile' = Null
    /\ parsedData' = Null
    /\ UNCHANGED <<transactionsFile, pageError, calls>>
    /\ UNCHANGED <<storeVars, calcVars, parseVars, fileVars, quoteVars, resaveVars, authVars, textVars>>

\* removeFile("transactions")
RemoveTransactions ==
    /\ transactionsFile # Null
    /\ Len(calls) < MaxCalls
    /\ transactionsFile' = Null
    /\ IF positionsFile # Null
       THEN /\ parsedData' = processFiles(positionsFile, Null).parsedData
            /\ calls' = processFiles(positionsFile, Null).calls
       ELSE UNCHANGED <<parsedData, calls>>
    /\ UNCHANGED <<positionsFile, pageError>>
    /\ UNCHANGED <<storeVars, calcVars, parseVars, fileVars, quoteVars, resaveVars, authVars, textVars>>

\* await positions.text() of call i settles: without a transactions file the
\* call runs to setParsedData, with one it waits for transactions.text()
PositionsTextSettles(i) ==
    /\ i <= Len(calls)
    /\ calls[i].at = "positions.text"
    /\ IF calls[i].transactions # Null
       THEN /\ calls' = [calls EXCEPT ![i].at = "transactions.text"]
            /\ UNCHANGED parsedData
       ELSE /\ calls' = [calls EXCEPT ![i].at = "done"]
            /\ parsedData' = processed(calls[i].positions, Null)
    /\ UNCHANGED <<positionsFile, transactionsFile, pageError>>
    /\ UNCHANGED <<storeVars, calcVars, parseVars, fileVars, quoteVars, resaveVars, authVars, textVars>>

\* await transactions.text() of call i settles and the call runs to setParsedData
TransactionsTextSettles(i) ==
    /\ i <= Len(calls)
    /\ calls[i].at = "transactions.text"
    /\ calls' = [calls EXCEPT ![i].at = "done"]
    /\ parsedData' = processed(calls[i].positions, calls[i].transactions)
    /\ UNCHANGED <<positionsFile, transactionsFile, pageError>>
    /\ UNCHANGED <<storeVars, calcVars, parseVars, fileVars, quoteVars, resaveVars, authVars, textVars>>

NextPage ==
    \/ ChoosePositions
    \/ ChooseTransactions
    \/ RemovePositions
    \/ RemoveTransactions
    \/ \E i \in 1..MaxCalls : PositionsTextSettles(i)
    \/ \E i \in 1..MaxCalls : TransactionsTextSettles(i)

InitUploadPage ==
    InitStore /\ IdleCalc /\ IdleParse /\ IdleFile /\ IdleQuote /\ IdleResave /\ InitPage /\ IdleAuth
    /\ IdleText

SpecPage == InitUploadPage /\ [][NextPage]_vars

----------------------------------------------------------------------------
(* The password-reset routes: forgot-password, reset-password and verify,   *)
(* each request a sequence of awaited statements on the User table          *)

UserIds == {"u1", "u2"}
Clients == {1, 2}

\* PASSWORD_RESET_EXPIRY_HOURS of lib/password, as the reset email states it
PASSWORD_RESET_EXPIRY_HOURS == 24

\* resetToken: null and resetExpiry: null in a User row
NoToken == 0
NoExpiry == -1

\* tokens generateResetToken hands out in a run, at most; a token is a random
\* value, here the number of the call that made it
MaxTokens == 2

\* the clock runs up to MaxExpiries times the expiry time
MaxExpiries == 1

\* the instants at which something happens, in hours since the start: each
\* multiple of the expiry time and the hour before it
AuthInstants ==
    {k * PASSWORD_RESET_EXPIRY_HOURS + e : k \in 0..MaxExpiries, e \in {-1, 0}}
        \cap (0..(MaxExpiries * PASSWORD_RESET_EXPIRY_HOURS))

EmailOf(u) == IF u = "u1" THEN <<"a","@","x",".","o","r","g">> ELSE <<"b","@","x",".","o","r","g">>

\* the email of a forgot-password request
Emails == {<<"a","@","x",".","o","r","g">>, <<"A","@","X",".","o","r","g">>, <<"b","@","x",".","o","r","g">>, <<"n","o","b","o","d","y","@","x",".","o","r","g">>, <<>>}

\* the password of a reset-password request
Passwords == {<<"c","o","r","r","e","c","t"," ","h","o","r","s","e">>, <<"s","h","o","r","t">>, <<>>}

\* the responses of the three routes
Success == [status |-> 200, body |-> "success"]
BadRequest(message) == [status |-> 400, body |-> message]
ServerError(message) == [status |-> 500, body |-> message]
Valid(flag) == [status |-> 200, body |-> IF flag THEN "valid" ELSE "not valid"]

\* no request of the client is under way and none was answered
NoRequest == [route |-> "none", at |-> "idle"]

\* prisma.user.findUnique({ where: { email: email.toLowerCase() } })
findUnique(table, email) == {u \in UserIds : table[u].email = toLowerCase(email)}

\* prisma.user.findFirst({ where: { resetToken: token, resetExpiry: { gt: new Date() } } })
findFirst(table, token, now) ==
    {u \in UserIds : /\ table[u].resetToken = token
                     /\ table[u].resetExpiry # NoExpiry
                     /\ table[u].resetExpiry > now}

\* prisma.user.update({ data: { resetToken, resetExpiry } })
withToken(row, resetToken, resetExpiry) ==
    [row EXCEPT !.resetToken = resetToken, !.resetExpiry = resetExpiry]

\* variant of withPassword that leaves the token in place
withPasswordOnly(row, hashedPassword) == [row EXCEPT !.password = hashedPassword]

\* prisma.user.update({ data: { password: hashedPassword, resetToken: null, resetExpiry: null } })
withPassword(row, hashedPassword) ==
    [row EXCEPT !.password = hashedPassword, !.resetToken = NoToken, !.resetExpiry = NoExpiry]

\* hashPassword(password)
hashPassword(password) == [hashed |-> password]

\* what has happened to the tokens stored so far: who each was issued to, when,
\* and whether it is the one its user was last issued, was replaced by a newer
\* one, or was there when a reset of its user succeeded
issue(log, token, user, now) ==
    [t \in DOMAIN log \cup {token} |->
        IF t = token THEN [user |-> user, issuedAt |-> now, state |-> "current"]
        ELSE IF log[t].user = user /\ log[t].state = "current"
        THEN [log[t] EXCEPT !.state = "replaced"]
        ELSE log[t]]

spend(log, user) ==
    [t \in DOMAIN log |->
        IF log[t].user = user /\ log[t].state = "current"
        THEN [log[t] EXCEPT !.state = "spent"]
        ELSE log[t]]

InitAuth ==
    /\ users = [u \in UserIds |->
                   [email |-> EmailOf(u), password |-> hashPassword(<<"f","i","r","s","t"," ","p","a","s","s","w","o","r","d">>),
                    resetToken |-> NoToken, resetExpiry |-> NoExpiry]]
    /\ aClock = 0
    /\ aMinted = 0
    /\ aReq = [c \in Clients |-> NoRequest]
    /\ aLog = <<>>

\* the request of client c is not under way
AtRest(c) == aReq[c].at \in {"idle", "done"}

Answer(c, response) == aReq' = [aReq EXCEPT ![c] = [@ EXCEPT !.at = "done", !.response = response]]

\* POST /api/auth/forgot-password up to the findUnique call
ForgotPost(c) ==
    /\ AtRest(c)
    /\ \E email \in Emails :
        aReq' = [aReq EXCEPT ![c] =
            IF email = <<>>
            THEN [route |-> "forgot", email |-> email, at |-> "done",
                  response |-> BadRequest("Email is required")]
            ELSE [route |-> "forgot", email |-> email, at |-> "findUnique"]]
    /\ UNCHANGED <<users, aClock, aMinted, aLog>>
    /\ UNCHANGED <<storeVars, calcVars, parseVars, fileVars, quoteVars, resaveVars, pageVars, textVars>>

\* findUnique settles: without a user the route answers success; with one it
\* makes the token and the expiry and calls update
ForgotFind(c) ==
    /\ aReq[c].route = "forgot" /\ aReq[c].at = "findUnique"
    /\ LET found == findUnique(users, aReq[c].email)
       IN  IF found = {}
           THEN /\ aReq' = [aReq EXCEPT ![c] =
                        [route |-> "forgot", email |-> aReq[c].email, at |-> "done",
                         response |-> Success]]
                /\ UNCHANGED aMinted
           ELSE /\ aMinted < MaxTokens
                /\ aMinted' = aMinted + 1
                /\ aReq' = [aReq EXCEPT ![c] =
                        [route |-> "forgot", email |-> aReq[c].email, at |-> "update",
                         user |-> CHOOSE u \in found : TRUE,
                         resetToken |-> aMinted + 1,
                         resetExpiry |-> aClock + PASSWORD_RESET_EXPIRY_HOURS]]
    /\ UNCHANGED <<users, aClock, aLog>>
    /\ UNCHANGED <<storeVars, calcVars, parseVars, fileVars, quoteVars, resaveVars, pageVars, textVars>>

\* the update of the user's row settles and sendPasswordResetEmail is called
ForgotUpdate(c) ==
    /\ aReq[c].route = "forgot" /\ aReq[c].at = "update"
    /\ users' = [users EXCEPT ![aReq[c].user] =
                    withToken(@, aReq[c].resetToken, aReq[c].resetExpiry)]
    /\ aLog' = issue(aLog, aReq[c].resetToken, aReq[c].user, aClock)
    /\ aReq' = [aReq EXCEPT ![c].at = "send"]
    /\ UNCHANGED <<aClock, aMinted>>
    /\ UNCHANGED <<storeVars, calcVars, parseVars, fileVars, quoteVars, resaveVars, pageVars, textVars>>

\* sendPasswordResetEmail settles: sent (or no mail service is configured),
\* or it throws and the catch block answers 500
ForgotSend(c) ==
    /\ aReq[c].route = "forgot" /\ aReq[c].at = "send"
    /\ \E sent \in BOOLEAN :
        aReq' = [aReq EXCEPT ![c] =
            [route |-> "forgot", email |-> aReq[c].email, at |-> "done",
             response |-> IF sent THEN Success ELSE ServerError("Failed to send reset email")]]
    /\ UNCHANGED <<users, aClock, aMinted, aLog>>
    /\ UNCHANGED <<storeVars, calcVars, parseVars, fileVars, quoteVars, resaveVars, pageVars, textVars>>

\* POST /api/auth/reset-password up to the findFirst call
ResetPost(c) ==
    /\ AtRest(c)
    /\ \E token \in 0..MaxTokens, password \in Passwords :
        aReq' = [aReq EXCEPT ![c] =
            IF token = NoToken \/ password = <<>>
            THEN [route |-> "reset", token |-> token, at |-> "done",
                  response |-> BadRequest("Token and password are required")]
            ELSE IF Len(password) < 8
            THEN [route |-> "reset", token |-> token, at |-> "done",
                  response |-> BadRequest("Password must be at least 8 characters")]
            ELSE [route |-> "reset", token |-> token, password |-> password, at |-> "findFirst"]]
    /\ UNCHANGED <<users, aClock, aMinted, aLog>>
    /\ UNCHANGED <<storeVars, calcVars, parseVars, fileVars, quoteVars, resaveVars, pageVars, textVars>>

\* findFirst settles: without a user the route answers 400; with one it
\* hashes the password and calls update
ResetFind(c) ==
    /\ aReq[c].route = "reset" /\ aReq[c].at = "findFirst"
    /\ LET found == findFirst(users, aReq[c].token, aClock)
       IN  aReq' = [aReq EXCEPT ![c] =
               IF found = {}
               THEN [route |-> "reset", token |-> aReq[c].token, at |-> "done",
                     response |-> BadRequest("Invalid or expired reset token")]
               ELSE [route |-> "reset", token |-> aReq[c].token, password |-> aReq[c].password,
                     at |-> "update", user |-> CHOOSE u \in found : TRUE, foundAt |-> aClock]]
    /\ UNCHANGED <<users, aClock, aMinted, aLog>>
    /\ UNCHANGED <<storeVars, calcVars, parseVars, fileVars, quoteVars, resaveVars, pageVars, textVars>>

\* the update of the user's row settles and the route answers success
ResetUpdate(c) ==
    /\ aReq[c].route = "reset" /\ aReq[c].at = "update"
    /\ users' = [users EXCEPT ![aReq[c].user] = withPassword(@, hashPassword(aReq[c].password))]
    /\ aLog' = spend(aLog, aReq[c].user)
    /\ aReq' = [aReq EXCEPT ![c] =
            [route |-> "reset", token |-> aReq[c].token, at |-> "done", response |-> Success]]
    /\ UNCHANGED <<aClock, aMinted>>
    /\ UNCHANGED <<storeVars, calcVars, parseVars, fileVars, quoteVars, resaveVars, pageVars, textVars>>

\* GET /api/auth/reset-password/verify up to the findFirst call
VerifyGet(c) ==
    /\ AtRest(c)
    /\ \E token \in 0..MaxTokens :
        aReq' = [aReq EXCEPT ![c] =
            IF token = NoToken
            THEN [route |-> "verify", token |-> token, at |-> "done", response |-> Valid(FALSE)]
            ELSE [route |-> "verify", token |-> token, at |-> "findFirst"]]
    /\ UNCHANGED <<users, aClock, aMinted, aLog>>
    /\ UNCHANGED <<storeVars, calcVars, parseVars, fileVars, quoteVars, resaveVars, pageVars, textVars>>

\* findFirst settles and the route answers valid or not
VerifyFind(c) ==
    /\ aReq[c].route = "verify" /\ aReq[c].at = "findFirst"
    /\ aReq' = [aReq EXCEPT ![c] =
            [route |-> "verify", token |-> aReq[c].token, at |-> "done",
             response |-> Valid(findFirst(users, aReq[c].token, aClock) # {})]]
    /\ UNCHANGED <<users, aClock, aMinted, aLog>>
    /\ UNCHANGED <<storeVars, calcVars, parseVars, fileVars, quoteVars, resaveVars, pageVars, textVars>>

\* time passes
Later ==
    /\ \E later \in AuthInstants :
        /\ later > aClock
        /\ aClock' = later
    /\ UNCHANGED <<users, aMinted, aReq, aLog>>
    /\ UNCHANGED <<storeVars, calcVars, parseVars, fileVars, quoteVars, resaveVars, pageVars, textVars>>

NextAuth ==
    \/ \E c \in Clients : ForgotPost(c)
    \/ \E c \in Clients : ForgotFind(c)
    \/ \E c \in Clients : ForgotUpdate(c)
    \/ \E c \in Clients : ForgotSend(c)
    \/ \E c \in Clients : ResetPost(c)
    \/ \E c \in Clients : ResetFind(c)
    \/ \E c \in Clients : ResetUpdate(c)
    \/ \E c \in Clients : VerifyGet(c)
    \/ \E c \in Clients : VerifyFind(c)
    \/ Later

InitAuthRoutes ==
    InitStore /\ IdleCalc /\ IdleParse /\ IdleFile /\ IdleQuote /\ IdleResave /\ IdlePage /\ InitAuth
    /\ IdleText

SpecAuth == InitAuthRoutes /\ [][NextAuth]_vars

----------------------------------------------------------------------------
(* Properties of the persistence adapter, checked under Spec *)

\* request t's transaction commits in this step
Commits(t) == pc[t] = "finished" /\ pc'[t] = "done"

RECURSIVE SumOf(_, _)
\* the sum of f over list, from its last element back
SumOf(f(_), list) ==
    IF Len(list) = 0 THEN 0
    ELSE SumOf(f, SubSeq(list, 1, Len(list) - 1)) + f(list[Len(list)])

MarketValueOf(h) == h.marketValue
CostOf(h) == h.quantity * h.costPerShare

\* C1: after a successful save of S the stored holdings are exactly the
\* holdings of S, in every field and with nothing else left, whatever was
\* stored before and also when S has no holdings.
SaveReplacesHoldings ==
    [][\A t \in Savers : Commits(t) =>
          /\ Len(db'.holdings) = Len(data[t].holdings)
          /\ \A i \in 1..Len(data[t].holdings) : db'.holdings[i] = data[t].holdings[i]]_vars

\* C1 witness: a save of a body without holdings has emptied the holdings
\* while the previously committed holdings were not empty.
SaveReplacesHoldingsWitness ==
    \E t \in Savers :
        /\ pc[t] = "finished"
        /\ data[t].holdings = <<>>
        /\ cur.holdings = <<>>
        /\ Len(db.holdings) = 2

SaveAllOrNothing ==
    [][IF \E t \in Savers : Commits(t)
       THEN \E t \in Savers : Commits(t) /\ db' = SaveResult(db, data[t])
       ELSE db' = db]_vars

\* C3 witness: a statement after the holdings delete threw; the uncommitted
\* rows lack the holdings that the committed rows still have.
SaveAllOrNothingWitness ==
    \E t \in Savers :
        /\ pc[t] = "throwing"
        /\ cur.holdings = <<>>
        /\ db.holdings # <<>>
        /\ cur.portfolio # db.portfolio

TotalsDerivable ==
    db.portfolio.exists =>
        /\ db.portfolio.totalValue = SumOf(MarketValueOf, db.holdings)
        /\ db.portfolio.totalCost = SumOf(CostOf, db.holdings)
        /\ db.portfolio.totalGainLoss = db.portfolio.totalValue - db.portfolio.totalCost

----------------------------------------------------------------------------
(* Properties of calculatePortfolioTotals, checked under SpecCalc *)

Results == {r \in {res1, res2} : r.called}

\* C6: the totals are the sums over the holdings, the gain is their
\* difference, the percent is gain / cost x 100 when the cost is positive and 0
\* otherwise, the cash balance is 0, and all four are 0 without holdings.
AggregatorTotals ==
    \A r \in Results :
        LET v == r.value
        IN  /\ v.totalValue = SumOf(MarketValueOf, cHoldings)
            /\ v.totalCost = SumOf(CostOf, cHoldings)
            /\ v.totalGainLoss = v.totalValue - v.totalCost
            /\ v.totalGainLossPercent.den # 0
            /\ IF v.totalCost > 0
               THEN v.totalGainLossPercent.num * v.totalCost
                        = v.totalGainLoss * 100 * v.totalGainLossPercent.den
               ELSE v.totalGainLossPercent.num = 0
            /\ v.cashBalance = 0
            /\ cHoldings = <<>> =>
                  /\ v.totalValue = 0 /\ v.totalCost = 0 /\ v.totalGainLoss = 0
                  /\ v.totalGainLossPercent.num = 0

\* C6 witness: a call on two holdings, one of them with several shares, whose
\* total cost is positive.
AggregatorTotalsWitness ==
    /\ res1.called
    /\ Len(cHoldings) = 2
    /\ cHoldings[1] = HoldingB
    /\ res1.value.totalCost > 0
    /\ res1.value.totalGainLoss < 0

\* C7 as stated: two calls on the same holdings and transactions return equal
\* snapshots.
CallsReturnEqual == (res1.called /\ res2.called) => res1.value = res2.value

\* C7 amended: two calls on the same arguments agree in every field but
\* lastUpdated, return the arguments as they were given, and carry as
\* lastUpdated the clock's reading at a moment not after now.
CallsAgreeUpToTimestamp ==
    /\ (res1.called /\ res2.called) =>
          [res1.value EXCEPT !.lastUpdated = <<>>] = [res2.value EXCEPT !.lastUpdated = <<>>]
    /\ \A r \in Results :
          /\ r.value.holdings = cHoldings
          /\ r.value.transactions = cTransactions
          /\ \E k \in 1..clock : r.value.lastUpdated = toISOString(k)

\* C7 witness: two calls on the same non-empty holdings at different instants.
CallsAgreeUpToTimestampWitness ==
    /\ res1.called /\ res2.called
    /\ cHoldings # <<>>
    /\ res1.value.lastUpdated # res2.value.lastUpdated

----------------------------------------------------------------------------
(* Properties of the transaction parsers, checked under SpecParse *)

\* YYYY-MM-DD: ten characters, digits around two hyphens
IsCanonicalDate(d) ==
    /\ Len(d) = 10
    /\ \A i \in {1, 2, 3, 4, 6, 7, 9, 10} : d[i] \in Digits
    /\ d[5] = "-" /\ d[8] = "-"

\* C8: every Transaction a parser produces, on either path and for every
\* record, has a date of the form YYYY-MM-DD.
DatesCanonical == pOut.kind = "transaction" => IsCanonicalDate(pOut.date)

\* C9: M/D/YYYY becomes YYYY-MM-DD with month and day padded to two digits,
\* text with an ISO date prefix becomes that ten-character date, and text no
\* interpretation accepts becomes the current date.
ParseSchwabDateCases ==
    pOut.kind = "transaction" =>
        LET s == orEmpty(pDate)
            m == slashMatch(s)
        IN  /\ m.matched =>
                  pOut.date = m.year \o <<"-">> \o padStart2(m.month) \o <<"-">> \o padStart2(m.day)
            /\ (~m.matched /\ isoPrefixTest(s)) => pOut.date = SubSeq(s, 1, 10)
            /\ (~m.matched /\ ~isoPrefixTest(s) /\ DateParse(s) = {InvalidDate}) =>
                  pOut.date = SubSeq(toISOString(clock), 1, 10)

ActionTaxonomy == {"BUY", "SELL", "DIVIDEND", "DEPOSIT", "WITHDRAWAL", "OTHER"}

\* the keywords in the order the classification tries them
KeywordOrder ==
    << [word |-> KW_buy, action |-> "BUY"],
       [word |-> KW_sell, action |-> "SELL"],
       [word |-> KW_dividend, action |-> "DIVIDEND"],
       [word |-> KW_div, action |-> "DIVIDEND"],
       [word |-> KW_deposit, action |-> "DEPOSIT"],
       [word |-> KW_transfer_in, action |-> "DEPOSIT"],
       [word |-> KW_withdraw, action |-> "WITHDRAWAL"],
       [word |-> KW_transfer_out, action |-> "WITHDRAWAL"] >>

\* C10: the first keyword of the fixed order that the lower-cased action text
\* contains decides the action; text with none of them is OTHER, except that
\* on the JSON path text containing "reinvest" is DIVIDEND; the two paths
\* differ on no other text, and the action is one of the six of the taxonomy.
ActionClassification ==
    pOut.kind = "transaction" =>
        LET text == toLowerCase(orEmpty(pAction))
            hits == {i \in 1..Len(KeywordOrder) : includes(text, KeywordOrder[i].word)}
            first == IF hits = {} THEN 0 ELSE CHOOSE i \in hits : \A j \in hits : i <= j
            expected ==
                IF first > 0 THEN KeywordOrder[first].action
                ELSE IF pPath = "json" /\ includes(text, KW_reinvest) THEN "DIVIDEND"
                ELSE "OTHER"
            csv == IF pPath = "csv" THEN pOut.action ELSE classifyCSV(text)
            json == IF pPath = "json" THEN pOut.action ELSE classifyJSON(text)
        IN  /\ pOut.action = expected
            /\ pOut.action \in ActionTaxonomy
            /\ csv # json =>
                  /\ hits = {} /\ includes(text, KW_reinvest)
                  /\ csv = "OTHER" /\ json = "DIVIDEND"

\* C10 witness: on the CSV path a text that names a sale before a purchase is
\* classified BUY.
ActionClassificationWitness ==
    /\ pOut.kind = "transaction"
    /\ pPath = "csv"
    /\ pAction.present
    /\ Len(pAction.text) > 4
    /\ SubSeq(toLowerCase(pAction.text), 1, 4) = KW_sell
    /\ includes(toLowerCase(pAction.text), KW_buy)
    /\ pOut.action = "BUY"

----------------------------------------------------------------------------
(* Properties of the positions parser, checked under SpecPositions *)

\* the number the text of a source field stands for
SourceNumber(text) == parseNumber(text)

\* a row of the file that the parser passes over: no position, a cash or
\* placeholder or empty symbol, or the word total anywhere in its text
PassedOver(row) ==
    \/ row.kind # "data"
    \/ row.symbol = <<>>
    \/ toLowerCase(row.symbol) = <<"c","a","s","h">>
    \/ row.symbol = <<"-","-">>
    \/ includes(toLowerCase(row.name), <<"t","o","t","a","l">>)

HasPositiveQuantity(row) ==
    SourceNumber(row.quantity).k = "finite" /\ SourceNumber(row.quantity).n > 0

\* the rows of the file a Holding is due for, in file order
RowsDue(input) == SelectSeq(input.rows, LAMBDA row : ~PassedOver(row) /\ HasPositiveQuantity(row))

HasNoLowerCase(s) == \A i \in 1..Len(s) : \A k \in 1..Len(LowerCase) : s[i] # LowerCase[k]

\* C11: every Holding the positions parser returns has quantity > 0, and the
\* Holdings returned are as many as the rows that are not passed over and
\* have a parsed quantity above zero; rows with quantity 0, below 0 or no
\* number give no Holding
PositionsQuantityGuard ==
    posOut1 # NotCalled =>
        /\ \A i \in 1..Len(posOut1.value) :
               posOut1.value[i].quantity.k = "finite" /\ posOut1.value[i].quantity.n > 0
        /\ Len(posOut1.value) = Len(RowsDue(posInput))

\* a file of two rows was parsed: one gave a Holding, the other has a symbol
\* that is kept and the quantity 0
PositionsQuantityGuardWitness ==
    /\ posOut1 # NotCalled
    /\ Len(posOut1.value) = 1
    /\ \E i \in 1..Len(posInput.rows) :
           ~PassedOver(posInput.rows[i]) /\ posInput.rows[i].quantity = <<"0">>

\* C12: no Holding comes from a row whose symbol is empty, is cash in any
\* letter case or is "--": the symbols returned are those of the rows due,
\* upper-cased, in order, and each is non-empty and upper-case
PositionsSymbolFilter ==
    posOut1 # NotCalled =>
        LET due == RowsDue(posInput)
            out == posOut1.value
        IN  /\ [i \in 1..Len(out) |-> toLowerCase(out[i].symbol)]
                   = [i \in 1..Len(due) |-> toLowerCase(due[i].symbol)]
            /\ \A i \in 1..Len(out) :
                   /\ out[i].symbol # <<>>
                   /\ HasNoLowerCase(out[i].symbol)
                   /\ toLowerCase(out[i].symbol) # <<"c","a","s","h">>
                   /\ out[i].symbol # <<"-","-">>

\* a file with a cash row written in capitals and a position row written in
\* small letters was parsed, and only the position came back, in capitals
PositionsSymbolFilterWitness ==
    /\ posOut1 # NotCalled
    /\ Len(posInput.rows) = 2
    /\ posInput.rows[1].symbol = <<"C","A","S","H">>
    /\ posInput.rows[2].symbol = <<"n","v","d","a">>
    /\ Len(posOut1.value) = 1 /\ posOut1.value[1].symbol = <<"N","V","D","A">>

\* the text of the example: the header and one row
ExamplePositionsText ==
    <<"S","y","m","b","o","l",",","D","e","s","c","r","i","p","t","i","o","n",",","Q","u","a","n","t","i","t","y",",","P","r","i","c","e",",","M","a","r","k","e","t"," ","V","a","l","u","e",",","C","o","s","t"," ","B","a","s","i","s","\n","A","A","P","L",",","A","p","p","l","e"," ","I","n","c",".",",","1","0",",","1","5","0",".","0","0",",","1","5","0","0",".","0","0",",","1","0","0","0",".","0","0">>

\* C13: for each row that gives a Holding, a source value that is present and
\* not zero is the Holding's value and a derived value stands in only for an
\* absent or zero one: marketValue else quantity x currentPrice, costPerShare
\* else costBasis / quantity, gainLoss else marketValue - costBasis; and the
\* example file gives one Holding with quantity 10, currentPrice 150,
\* marketValue 1500, costPerShare 100, gainLoss 500, gainLossPercent 50
PositionsSourceFirst ==
    posOut1 # NotCalled =>
        LET due == RowsDue(posInput)
            out == posOut1.value
        IN  /\ Len(out) = Len(due)
            /\ \A i \in 1..Len(out) :
                   LET h == out[i]
                       costBasis == SourceNumber(due[i].costBasis)
                   IN  /\ h.quantity = SourceNumber(due[i].quantity)
                       /\ h.currentPrice = SourceNumber(due[i].price)
                       /\ h.marketValue =
                              IF SourceNumber(due[i].marketValue) # Zero
                              THEN SourceNumber(due[i].marketValue)
                              ELSE Times(h.quantity, h.currentPrice)
                       /\ h.costPerShare =
                              IF SourceNumber(due[i].costPerShare) # Zero
                              THEN SourceNumber(due[i].costPerShare)
                              ELSE Divide(costBasis, h.quantity)
                       /\ h.gainLoss =
                              IF SourceNumber(due[i].gainLoss) # Zero
                              THEN SourceNumber(due[i].gainLoss)
                              ELSE Minus(h.marketValue, costBasis)
            /\ trim(posContent) = ExamplePositionsText =>
                   /\ Len(out) = 1
                   /\ out[1].quantity = Number(10, 1)
                   /\ out[1].currentPrice = Number(150, 1)
                   /\ out[1].marketValue = Number(1500, 1)
                   /\ out[1].costPerShare = Number(100, 1)
                   /\ out[1].gainLoss = Number(500, 1)
                   /\ out[1].gainLossPercent = Number(50, 1)

\* a row with every source value present was parsed and the source values
\* came back, although the derived cost per share and gain differ from them
PositionsSourceFirstWitness ==
    /\ posOut1 # NotCalled
    /\ Len(posOut1.value) = 1
    /\ posInput.full
    /\ posOut1.value[1].marketValue = Number(1500, 1)
    /\ posOut1.value[1].costPerShare = Number(90, 1)
    /\ posOut1.value[1].gainLoss = Number(-200, 1)

\* C14: a Holding from a row without an explicit gain/loss percent has
\* gainLossPercent = gainLoss / costBasis x 100 when costBasis > 0 and 0
\* otherwise, also when the row's explicit gain/loss is not marketValue -
\* costBasis
PercentFromGainLoss ==
    posOut1 # NotCalled =>
        LET due == RowsDue(posInput)
            out == posOut1.value
        IN  \A i \in 1..Len(out) :
                (i <= Len(due) /\ SourceNumber(due[i].gainLossPct) = Zero) =>
                    LET costBasis == SourceNumber(due[i].costBasis)
                    IN  out[i].gainLossPercent =
                            IF costBasis.n > 0
                            THEN Times(Divide(out[i].gainLoss, costBasis), Hundred)
                            ELSE Zero

----------------------------------------------------------------------------
(* Properties of the parser entry points, checked under SpecEntry *)

\* the content starts, after trimming, with { or [, or the name ends in
\* .json in any letter case
ContentOrNameIsJSON ==
    LET trimmed == trim(txContent)
    IN  \/ (trimmed # <<>> /\ trimmed[1] \in {"{", "["})
        \/ /\ txName.present
           /\ Len(txName.text) >= 5
           /\ toLowerCase(SubSeq(txName.text, Len(txName.text) - 4, Len(txName.text))) = <<".","j","s","o","n">>

\* the parser that read the content
PathTaken ==
    IF txEntry = "auto" THEN (IF ContentOrNameIsJSON THEN "json" ELSE "csv") ELSE txEntry

\* the rows of the file a Transaction is due for, in file order: on the CSV
\* path those with a date, on the JSON path every record
TransactionsDue(file) ==
    SelectSeq(file.rows, LAMBDA row : row.kind = "data" /\ (file.format = "json" \/ row.date # <<>>))

\* C15: parseSchwabTransactions takes the JSON parser exactly when the trimmed
\* content starts with { or [ or the file name ends in .json in any letter
\* case, the CSV parser otherwise, and returns what that parser returns on
\* the same content
DispatchByContentOrName ==
    (txEntry = "auto" /\ txOut # NotCalled) =>
        LET chosen == IF ContentOrNameIsJSON
                      THEN parseSchwabTransactionsJSON(txContent, txOut.now, txOut.parsed)
                      ELSE parseSchwabTransactionsCSV(txContent, txOut.now, txOut.parsed)
        IN  txOut.threw = chosen.threw /\ txOut.value = chosen.value

\* a CSV file with rows was given under a name ending in .JSON: the JSON
\* parser was taken and returned nothing
DispatchByContentOrNameWitness ==
    /\ txEntry = "auto" /\ txOut # NotCalled
    /\ txInput.format = "csv" /\ Len(TransactionsDue(txInput)) = 2
    /\ txName = Field(<<"E","x","p","o","r","t",".","J","S","O","N">>)
    /\ txOut.value = <<>>

\* C16: no entry point of the parsers raises to its caller: each call returns
\* a collection, empty or not, and the JSON parser returns the empty
\* collection for content that is no JSON document
EntryPointsNeverRaise ==
    txOut # NotCalled =>
        /\ ~txOut.threw
        /\ DOMAIN txOut.value = 1..Len(txOut.value)
        /\ (txEntry = "json" /\ \A i \in 1..Len(Documents) : Documents[i][1] # txContent)
               => txOut.value = <<>>

\* the JSON parser was given text that starts like a document and is none
EntryPointsNeverRaiseWitness ==
    /\ txEntry = "json" /\ txOut # NotCalled
    /\ txContent = BrokenBlob
    /\ txOut.value = <<>>

\* C17: every Transaction of either path has a quantity >= 0 that is the
\* absolute value of the parsed source quantity, the amount with the sign of
\* the source, and the source symbol upper-cased or "--" when there is none;
\* the example document gives one Transaction: SELL, AAPL, 10, 1500
TransactionFieldsNormalised ==
    (txOut # NotCalled /\ txEntry # "positions") =>
        LET out == txOut.value
            due == TransactionsDue(txInput)
        IN  /\ \A i \in 1..Len(out) :
                   /\ out[i].quantity.k = "finite" /\ out[i].quantity.n >= 0
                   /\ out[i].symbol # <<>> /\ HasNoLowerCase(out[i].symbol)
            /\ PathTaken = txInput.format =>
                   /\ Len(out) = Len(due)
                   /\ \A i \in 1..Len(out) :
                          LET quantity == SourceNumber(due[i].quantity)
                          IN  /\ out[i].quantity =
                                     IF quantity.n < 0 THEN Minus(Zero, quantity) ELSE quantity
                              /\ out[i].amount = SourceNumber(due[i].amount)
                              /\ IF due[i].symbol = <<>>
                                 THEN out[i].symbol = <<"-","-">>
                                 ELSE toLowerCase(out[i].symbol) = toLowerCase(due[i].symbol)
            /\ (txContent = ExampleBlob /\ PathTaken = "json") =>
                   /\ Len(out) = 1
                   /\ out[1].action = "SELL"
                   /\ out[1].symbol = <<"A","A","P","L">>
                   /\ out[1].quantity = Number(10, 1)
                   /\ out[1].amount = Number(1500, 1)

\* the example document went through the JSON parser: the quantity -10 of
\* the source came back as 10
TransactionFieldsNormalisedWitness ==
    /\ txEntry = "json" /\ txOut # NotCalled
    /\ txContent = ExampleBlob
    /\ Len(txOut.value) = 1
    /\ txOut.value[1].quantity = Number(10, 1)

\* C18: the CSV path returns one Transaction, in file order, for each line
\* after the header that is not blank, does not begin with the empty quoted
\* marker and has a date; an unknown action, unparseable numbers or a
\* missing symbol drop no row
CSVRowsWithDateKept ==
    (txOut # NotCalled /\ PathTaken = "csv" /\ txInput.format = "csv") =>
        LET out == txOut.value
            due == TransactionsDue(txInput)
        IN  /\ Len(out) = Len(due)
            /\ \A i \in 1..Len(out) :
                   /\ out[i].description = due[i].description
                   /\ out[i].price = SourceNumber(due[i].price)

\* a file with a row that has a date and neither a known action nor numbers
\* nor a symbol, and a row without a date: the first came back, the second
\* did not
CSVRowsWithDateKeptWitness ==
    /\ txEntry = "csv" /\ txOut # NotCalled
    /\ Len(txInput.rows) = 2
    /\ txInput.rows[1].action = <<"J","o","u","r","n","a","l">>
    /\ txInput.rows[2].kind = "data" /\ txInput.rows[2].date = <<>>
    /\ Len(txOut.value) = 1
    /\ txOut.value[1].action = "OTHER"
    /\ txOut.value[1].symbol = <<"-","-">>
    /\ txOut.value[1].quantity = Zero

----------------------------------------------------------------------------
(* Properties of loadPortfolioData, checked under SpecLoad *)

SetOf(list) == {list[i] : i \in 1..Len(list)}

\* C20: loadPortfolioData returns the empty snapshot (no holdings, no
\* transactions, every total 0) for a user without a stored portfolio, and
\* after a save of S into an empty store it returns the holdings and the
\* four totals of S unchanged and the same set of transactions as S
LoadReturnsSaved ==
    lOut # NotCalled =>
        LET loaded == lOut.value
        IN  IF db = EmptyStore
            THEN /\ loaded.holdings = <<>> /\ loaded.transactions = <<>>
                 /\ loaded.totalValue = 0 /\ loaded.totalCost = 0
                 /\ loaded.totalGainLoss = 0 /\ loaded.totalGainLossPercent = 0
                 /\ loaded.cashBalance = 0
            ELSE /\ loaded.holdings = lBody.holdings
                 /\ loaded.totalValue = lBody.totalValue
                 /\ loaded.totalCost = lBody.totalCost
                 /\ loaded.totalGainLoss = lBody.totalGainLoss
                 /\ loaded.totalGainLossPercent = lBody.totalGainLossPercent
                 /\ SetOf(loaded.transactions) = SetOf(lBody.transactions)

----------------------------------------------------------------------------
(* The quote client *)

\* the ways the provider fails a call
ProviderFailures == {"rejects", "status", "notJSON", "noData"}

\* the call of caller c ends in this step
Settles(c) == qCall'[c] # qCall[c] /\ qCall'[c].settled

\* C21: a getStockQuote call whose provider request threw, was answered with a
\* status that is not OK, or carried no data for the symbol returns null, and
\* the step that ends the call leaves the quote cache exactly as it was.
QuoteFailuresReturnNull ==
    [][\A c \in Callers :
          (Settles(c) /\ qCall'[c].failure \in ProviderFailures)
              => (qCall'[c].ret = Null /\ priceCache' = priceCache)]_vars

\* both callers were failed by the provider, one by a rejected request and one
\* by a body without data, while the cache holds the entry the first one found
QuoteFailuresReturnNullWitness ==
    \E c \in Callers, o \in Callers :
        /\ qCall[c].settled /\ qCall[c].failure = "rejects" /\ qCall[c].ret = Null
        /\ qCall[c].before # Undefined
        /\ cacheGet(priceCache, qCall[c].symbol) = qCall[c].before
        /\ qCall[o].settled /\ qCall[o].failure = "noData" /\ qCall[o].ret = Null

\* C22: a call that finds an entry stored less than CACHE_TTL ago returns that
\* entry's quote without contacting the provider; a call that finds an entry
\* stored CACHE_TTL ago or more contacts the provider, returns what the
\* provider sent (never the stale quote), and on success stores the new quote
\* with the time of the store.
QuoteCacheServesWithinTTL ==
    [][\A c \in Callers :
          (Settles(c) /\ qCall'[c].before # Undefined) =>
              LET k == qCall'[c]
              IN  IF k.at - k.before.timestamp < CACHE_TTL
                  THEN ~k.contacted /\ k.ret = k.before.data /\ priceCache' = priceCache
                  ELSE /\ k.contacted
                       /\ IF k.failure = "none"
                          THEN /\ k.ret # Null
                               /\ k.ret.currentPrice = k.price
                               /\ cacheGet(priceCache', k.symbol) = [data |-> k.ret, timestamp |-> qClock]
                          ELSE k.ret = Null]_vars

\* one caller was served an entry one millisecond short of the TTL, the other
\* found an entry exactly CACHE_TTL old, fetched, and its quote is now the entry
QuoteCacheServesWithinTTLWitness ==
    \E c \in Callers, o \in Callers :
        /\ qCall[c].settled /\ qCall[c].before # Undefined
        /\ qCall[c].at - qCall[c].before.timestamp = CACHE_TTL - 1
        /\ ~qCall[c].contacted /\ qCall[c].ret = qCall[c].before.data
        /\ qCall[o].settled /\ qCall[o].before # Undefined
        /\ qCall[o].at - qCall[o].before.timestamp = CACHE_TTL
        /\ qCall[o].contacted /\ qCall[o].failure = "none"
        /\ cacheGet(priceCache, qCall[o].symbol) = [data |-> qCall[o].ret, timestamp |-> qCall[o].at]

----------------------------------------------------------------------------
(* The text helpers *)

\* some header contains the candidate
Matched(headers, name) == \E i \in 1..Len(headers) : includes(headers[i], name)

\* the first header, counted from 0, that contains the candidate
FirstWith(headers, name) ==
    (CHOOSE i \in 1..Len(headers) :
         includes(headers[i], name) /\ \A j \in 1..(i - 1) : ~includes(headers[j], name)) - 1

\* C23 (as amended): findColumn takes the candidates in their order and returns
\* the index of the first header that contains the first candidate some header
\* contains, and -1 when no header contains any candidate; getValue of an
\* index that is -1 or past the end of the row is the empty string.
ColumnByCandidateOrder ==
    /\ (tOut.called /\ tInput.kind = "findColumn") =>
           LET h == tInput.headers
               n == tInput.names
           IN  IF \E k \in 1..Len(n) : Matched(h, n[k])
               THEN \E k \in 1..Len(n) :
                        /\ Matched(h, n[k])
                        /\ \A j \in 1..(k - 1) : ~Matched(h, n[j])
                        /\ tOut.value = FirstWith(h, n[k])
               ELSE tOut.value = -1
    /\ (tOut.called /\ tInput.kind = "getValue"
            /\ (tInput.index = -1 \/ tInput.index >= Len(tInput.values)))
           => tOut.value = <<>>

\* the headers value, market value searched for market value, then value: the
\* second header is returned though the first one contains a candidate
ColumnByCandidateOrderWitness ==
    /\ tOut.called /\ tInput.kind = "findColumn"
    /\ tInput.headers = << <<"v","a","l","u","e">>, <<"m","a","r","k","e","t"," ","v","a","l","u","e">> >>
    /\ tInput.names = << <<"m","a","r","k","e","t"," ","v","a","l","u","e">>, <<"v","a","l","u","e">> >>
    /\ tOut.value = 1

\* C23: findColumn returns the index of the first header, in header order,
\* that contains any of the candidates, and -1 when no header contains one;
\* getValue of an index that is -1 or past the end of the row is the empty
\* string.
ColumnByHeaderOrder ==
    /\ (tOut.called /\ tInput.kind = "findColumn") =>
           LET h == tInput.headers
               n == tInput.names
               any(i) == \E k \in 1..Len(n) : includes(h[i], n[k])
           IN  IF \E i \in 1..Len(h) : any(i)
               THEN any(tOut.value + 1) /\ \A j \in 1..tOut.value : ~any(j)
               ELSE tOut.value = -1
    /\ (tOut.called /\ tInput.kind = "getValue"
            /\ (tInput.index = -1 \/ tInput.index >= Len(tInput.values)))
           => tOut.value = <<>>

\* the lines of the file that are headers, counted from 1
HeaderLines(lines) == {i \in 1..Len(lines) : lines[i].is = "header"}

FirstOf(S) == CHOOSE i \in S : \A j \in S : i <= j

\* the symbols of the lines after line i
SymbolsAfter(lines, i) == [k \in 1..(Len(lines) - i) |-> lines[i + k].symbol]

\* C24: the header search returns the index, counted from 0, of the first line
\* that holds the signal keywords in any case, and 0 when no line does; when
\* the lines after the header are rows, the records are those rows and no line
\* before the header gives a record.
HeaderLocatorFirstMatch ==
    (tOut.called /\ tInput.kind \in {"positions", "transactions"}) =>
        LET lines == tInput.lines
            hs == HeaderLines(lines)
        IN  /\ tOut.value.headerIndex = IF hs = {} THEN 0 ELSE FirstOf(hs) - 1
            /\ (hs # {} /\ \A i \in (FirstOf(hs) + 1)..Len(lines) : lines[i].is = "row")
                   => [k \in 1..Len(tOut.value.records) |-> tOut.value.records[k].symbol]
                          = SymbolsAfter(lines, FirstOf(hs))

\* a positions file with a row above its header: the row below the header is
\* the only record; and the header search of that file answers 1
HeaderLocatorFirstMatchWitness ==
    /\ tOut.called /\ tInput.kind = "positions"
    /\ Len(tInput.lines) = 3
    /\ tInput.lines[1].is = "row" /\ tInput.lines[2].is = "header" /\ tInput.lines[3].is = "row"
    /\ tOut.value.headerIndex = 1
    /\ Len(tOut.value.records) = 1
    /\ tOut.value.records[1].symbol = tInput.lines[3].symbol

\* the commas of the line that lie outside quotes
SplittingCommas(line) ==
    {i \in 1..Len(line) :
        line[i] = "," /\ Cardinality({j \in 1..(i - 1) : line[j] = "\""}) % 2 = 0}

\* how many times c occurs in s
Occurrences(s, c) == Cardinality({i \in 1..Len(s) : s[i] = c})

RECURSIVE CommasIn(_)
\* the commas in the fields
CommasIn(fields) ==
    IF fields = <<>> THEN 0 ELSE Occurrences(Head(fields), ",") + CommasIn(Tail(fields))

\* C25: parseCSVLine returns one field more than the line has commas outside
\* quotes (one empty field for the empty line), every quote toggling the
\* in-quotes state; the commas inside quotes are in the fields, no field holds
\* a quote, and no field starts or ends with white space.
TokenizerFields ==
    (tOut.called /\ tInput.kind = "parseCSVLine") =>
        LET line == tInput.line
            fields == tOut.value
        IN  /\ Len(fields) = Cardinality(SplittingCommas(line)) + 1
            /\ line = <<>> => fields = << <<>> >>
            /\ CommasIn(fields) = Occurrences(line, ",") - Cardinality(SplittingCommas(line))
            /\ \A k \in 1..Len(fields) :
                   /\ Occurrences(fields[k], "\"") = 0
                   /\ fields[k] # <<>> =>
                          (Head(fields[k]) \notin WhiteSpace
                           /\ fields[k][Len(fields[k])] \notin WhiteSpace)
            /\ fields = parseCSVLine(line)

\* the line ",", in quotes, then a comma: two fields, the first one the comma
TokenizerFieldsWitness ==
    /\ tOut.called /\ tInput.kind = "parseCSVLine"
    /\ tInput.line = <<"\"", ",", "\"", ",">>
    /\ tOut.value = << <<",">>, <<>> >>

\* C26: parseNumber gives 1234.56 for "$1,234.56", -500 for "(500)", 0 for ""
\* and for "abc", and for every text the number that is left to parse once $,
\* commas and white space are gone and (X) is rewritten as -X, or 0: it always
\* returns a finite number, 0 when the text holds no digit.
ParseNumberCases ==
    (tOut.called /\ tInput.kind = "parseNumber") =>
        /\ tInput.d # 0 => tOut.value = Number(tInput.n, tInput.d)
        /\ tOut.value.k = "finite"
        /\ (\A i \in 1..Len(tInput.value) : tInput.value[i] \notin Digits) => tOut.value = Zero
        /\ (Len(tInput.value) >= 3 /\ Head(tInput.value) = "("
                /\ tInput.value[Len(tInput.value)] = ")")
               => tOut.value = parseNumber(<<"-">> \o SubSeq(tInput.value, 2, Len(tInput.value) - 1))

\* "(500)" has been parsed to -500
ParseNumberCasesWitness ==
    /\ tOut.called /\ tInput.kind = "parseNumber"
    /\ tInput.value = <<"(","5","0","0",")">>
    /\ tOut.value = Number(-500, 1)

----------------------------------------------------------------------------
(* A save made twice *)

\* C27: when savePortfolioData is called twice in succession with the same
\* snapshot, the stored totals, holdings and transactions after the second
\* call are those after the first call, whatever the store held before.
SaveTwiceSame == sSecond.called => sSecond.value = sFirst.value

\* a snapshot of two transactions and a holding, saved twice over a store that
\* held one transaction: two transactions and the snapshot's holdings are stored
SaveTwiceSameWitness ==
    /\ sSecond.called
    /\ Len(lBody.transactions) = 2 /\ Len(lBody.holdings) >= 1
    /\ Len(sSecond.value.transactions) = 2
    /\ Len(sSecond.value.holdings) = Len(lBody.holdings)
    /\ sSecond.value.transactions[1] # TransactionRow(lBody.transactions[1])

----------------------------------------------------------------------------
(* The upload page *)

\* no processFiles call is waiting for a file's text
AllSettled == \A i \in 1..Len(calls) : calls[i].at = "done"

\* C28: once every processFiles call under way has settled, parsedData is the
\* snapshot computed from the positions file and the transactions file now
\* selected, and null when no positions file is selected.
ParsedDataFollowsSelection ==
    AllSettled =>
        parsedData = IF positionsFile = Null THEN Null
                     ELSE processed(positionsFile, transactionsFile)

\* the lookup of a reset-password or verify request finds a user in this step
Accepts(c) ==
    /\ aReq[c].at = "findFirst"
    /\ \/ aReq[c].route = "reset" /\ aReq'[c].at = "update"
       \/ aReq[c].route = "verify" /\ aReq'[c].at = "done" /\ aReq'[c].response = Valid(TRUE)

\* the update of a reset-password request settles in this step
Resets(c) == aReq[c].route = "reset" /\ aReq[c].at = "update" /\ aReq'[c].at = "done"

(* C29: the lookup of a reset-password or verify request finds a user only   *)
(* if the request's token is some user's resetToken and the time is before   *)
(* that user's resetExpiry, and only if the token is the one last issued to  *)
(* its user with no reset of that user having succeeded since; and a          *)
(* successful reset leaves its user without a token and its token with no    *)
(* user                                                                       *)
ResetTokenLifecycle ==
    [][\A c \in Clients :
        /\ Accepts(c) =>
            /\ \E u \in UserIds : /\ users[u].resetToken = aReq[c].token
                                  /\ aClock < users[u].resetExpiry
            /\ aReq[c].token \in DOMAIN aLog
            /\ aLog[aReq[c].token].state = "current"
            /\ aClock < aLog[aReq[c].token].issuedAt + PASSWORD_RESET_EXPIRY_HOURS
        /\ Resets(c) =>
            /\ users'[aReq[c].user].resetToken = NoToken
            /\ \A u \in UserIds : users'[u].resetToken # aReq[c].token]_vars

\* one client's reset succeeded, the token it used is spent, and the other
\* client's reset with the same token was refused
ResetTokenLifecycleWitness ==
    \E c \in Clients, o \in Clients :
        /\ aReq[c].route = "reset" /\ aReq[c].at = "done" /\ aReq[c].response = Success
        /\ aReq[c].token \in DOMAIN aLog
        /\ aLog[aReq[c].token].state = "spent"
        /\ aReq[o].route = "reset" /\ aReq[o].at = "done"
        /\ aReq[o].token = aReq[c].token
        /\ aReq[o].response = BadRequest("Invalid or expired reset token")

(* C30: two answered forgot-password requests with a non-empty email have     *)
(* the same response, whether the email is a registered user's or not         *)
ForgotAnswersAlike ==
    \A c \in Clients, o \in Clients :
        (/\ aReq[c].route = "forgot" /\ aReq[c].at = "done" /\ aReq[c].email # <<>>
         /\ aReq[o].route = "forgot" /\ aReq[o].at = "done" /\ aReq[o].email # <<>>)
            => aReq[c].response = aReq[o].response

====
